---- MODULE Spec2Model ----
(***************************************************************************)
(* State-machine model of intel-resource-drivers-for-kubernetes.  QAT       *)
(* kubelet plugin: the PF/VF allocation engine (pkg/qat/device), the node  *)
(* state (cmd/kubelet-qat-plugin/node_state.go), the driver entry points   *)
(* (cmd/kubelet-qat-plugin/driver.go), concurrent request handlers and the *)
(* CDI registry (pkg/qat/cdihelpers).  GPU kubelet plugin: health polling  *)
(* (pkg/goxpusmi), the health monitor goroutines, the DeviceTaintRules and *)
(* device discovery from sysfs.  Gaudi kubelet plugin: the spec file of    *)
(* the CDI registry (pkg/gaudi/cdihelpers), nodeState.Prepare and device   *)
(* discovery.                                                              *)
(***************************************************************************)
EXTENDS Integers, Sequences, FiniteSets, TLC

\* ------------------------------------------------------------------------
\* Bounds of the model
\* ------------------------------------------------------------------------
VFsPerPF == 2
MaxResults == 2
\* health categories polled per device (of the six of goxpusmi.healthTypes)
NumHealthTypes == 2
\* entries of the sysfs driver directory in one scan
MaxEntries == 2

\* ------------------------------------------------------------------------
\* Universe: physical functions, their virtual functions, claims
\* ------------------------------------------------------------------------
PFs == {"aa", "bb"}
VFs == PFs \X (1..VFsPerPF)
VFsOf(p) == {v \in VFs : v[1] = p}
pfdevice(v) == v[1]
\* a device name that no discovered VF carries
Missing == <<"xx", 0>>
\* the shared vfio control node
ControlNode == <<"vfio", 0>>
Claims == {"A", "B"}
\* the empty claimant identifier
NoClaim == ""

\* ------------------------------------------------------------------------
\* Services bitset
\* ------------------------------------------------------------------------
None == {}
Sym == {"sym"}
Asym == {"asym"}
Dc == {"dc"}
Unset == {"unset"}
InitServices == [aa : {None, Sym}, bb : {Dc}]
InitReconfiguration == [aa : BOOLEAN, bb : {FALSE}]
RequestServices == {Unset, Sym, Asym}

Supports(s, r) ==
    IF r = Unset THEN TRUE
    ELSE IF s = None \/ r = None THEN s = r
    ELSE r \subseteq s

\* ------------------------------------------------------------------------
\* State
\* ------------------------------------------------------------------------
VARIABLES
    up,                    \* the plugin process is running
    Services,              \* PFDevice.Services, per PF
    AllowReconfiguration,  \* PFDevice.AllowReconfiguration, per PF
    AvailableDevices,      \* PFDevice.AvailableDevices, per PF
    AllocatedDevices,      \* PFDevice.AllocatedDevices, per PF and claimant
    requested,             \* history: the service each bound VF was requested with
    Prepared,              \* NodeState.Prepared, the in-memory Ledger
    disk,                  \* the Ledger file (preparedClaims.json)
    claimResults,          \* claim.Status.Allocation.Devices.Results, per claim
    last,                  \* outcome of the last operation
    Allocatable,           \* nodeState.Allocatable: the VF UIDs Prepare can find
    registry,              \* QAT specs of the CDI registry, on disk
    conc,                  \* concurrent request handlers: positions, lock, responses
    hm,                    \* GPU health monitor: goroutines, channel, device health
    gaudi,                 \* Gaudi plugin: CDI spec, Ledger, devices
    taints,                \* DeviceTaintRules on the API server
    scan                   \* one sysfs scan of device discovery

vars == <<up, Services, AllowReconfiguration, AvailableDevices, AllocatedDevices,
          requested, Prepared, disk, claimResults, last, Allocatable, registry,
          conc, hm, gaudi, taints, scan>>

\* value of the variables of a component that is not running
Idle == "idle"

\* the device half of the state, threaded through the operators below
DevState == [Services |-> Services, AllowReconfiguration |-> AllowReconfiguration,
             AvailableDevices |-> AvailableDevices, AllocatedDevices |-> AllocatedDevices,
             requested |-> requested, Allocatable |-> Allocatable]

NoEntry == [found |-> FALSE, Devices |-> <<>>]
Entry(devices) == [found |-> TRUE, Devices |-> devices]
EmptyLedger == [c \in Claims |-> NoEntry]

CDIName(v) == <<"intel.com/qat", v>>

Holders(D, v) == {c \in Claims : v \in D.AllocatedDevices[pfdevice(v)][c]}
AllocatedUnder(D, p) == UNION {D.AllocatedDevices[p][c] : c \in Claims}
BoundTo(D, c) == UNION {D.AllocatedDevices[p][c] : p \in PFs}

\* ------------------------------------------------------------------------
\* Allocation engine (pkg/qat/device): PFDevice.Allocate, VFDevice.Free,
\* CheckAlreadyAllocated, AllocateFromConfigured, AllocateWithReconfiguration,
\* PFDevice.getVFs
\* ------------------------------------------------------------------------
Bind(D, v, by, svc) ==
    [D EXCEPT !.AvailableDevices[pfdevice(v)] = @ \ {v},
              !.AllocatedDevices[pfdevice(v)][by] = @ \cup {v},
              !.requested[v] = svc]

\* mutant of PFAllocate: the VF is recorded under the claimant whether or not
\* it is still available
PFAllocateNoAvailableCheck(D, v, by, svc) ==
    IF by = NoClaim
    THEN [ok |-> FALSE, D |-> D]
    ELSE [ok |-> TRUE, D |-> Bind(D, v, by, svc)]

\* PFDevice.Allocate(vfuid, allocatedBy): move an available VF under the claimant
PFAllocate(D, v, by, svc) ==
    IF by = NoClaim \/ v \notin D.AvailableDevices[pfdevice(v)]
    THEN [ok |-> FALSE, D |-> D]
    ELSE [ok |-> TRUE, D |-> Bind(D, v, by, svc)]

CheckAlreadyAllocated(D, v, svc, by) ==
    /\ Supports(D.Services[pfdevice(v)], svc)
    /\ by # NoClaim
    /\ v \in D.AllocatedDevices[pfdevice(v)][by]

\* mutant of AllocateFromConfigured: the PF's profile has to include the
\* requested service
AllocateFromConfiguredMatching(D, v, svc, by) ==
    IF Supports(D.Services[pfdevice(v)], svc)
    THEN PFAllocate(D, v, by, svc)
    ELSE [ok |-> FALSE, D |-> D]

\* binds on any configured PF (a service mismatch is ignored), and on an
\* unconfigured PF when the request is compatible with None
AllocateFromConfigured(D, v, svc, by) ==
    IF D.Services[pfdevice(v)] # None \/ Supports(D.Services[pfdevice(v)], svc)
    THEN PFAllocate(D, v, by, svc)
    ELSE [ok |-> FALSE, D |-> D]

\* mutant of AllocateWithReconfiguration: a configured PF is reconfigured too
AllocateWithReconfigurationAlways(D, v, svc, by) ==
    IF D.AllowReconfiguration[pfdevice(v)]
    THEN LET a == PFAllocate(D, v, by, svc)
         IN  IF a.ok
             THEN [ok |-> TRUE, D |-> [a.D EXCEPT !.Services[pfdevice(v)] = svc]]
             ELSE [ok |-> FALSE, D |-> D]
    ELSE [ok |-> FALSE, D |-> D]

AllocateWithReconfiguration(D, v, svc, by) ==
    IF D.AllowReconfiguration[pfdevice(v)] /\ D.Services[pfdevice(v)] = None
    THEN LET a == PFAllocate(D, v, by, svc)
         IN  IF a.ok
             THEN [ok |-> TRUE, D |-> [a.D EXCEPT !.Services[pfdevice(v)] = svc]]
             ELSE [ok |-> FALSE, D |-> D]
    ELSE [ok |-> FALSE, D |-> D]

\* mutant of Free: the profile is reset while other VFs of the PF are allocated
FreeResetsEarly(D, v, by) ==
    LET p == pfdevice(v)
        target == IF by = NoClaim THEN Holders(D, v) ELSE Holders(D, v) \cap {by}
    IN  IF target = {}
        THEN [err |-> TRUE, updated |-> FALSE, D |-> D]
        ELSE LET c == CHOOSE x \in target : TRUE
                 D1 == [D EXCEPT !.AllocatedDevices[p][c] = @ \ {v},
                                 !.AvailableDevices[p] = @ \cup {v},
                                 !.requested[v] = Unset]
                 reset == D1.AllowReconfiguration[p] /\ D1.Services[p] # None
             IN  [err |-> FALSE, updated |-> reset,
                  D |-> IF reset THEN [D1 EXCEPT !.Services[p] = None] ELSE D1]

\* mutant of Free: the requester is not compared with the claimant
FreeAnyRequester(D, v, by) ==
    LET p == pfdevice(v)
        target == Holders(D, v)
    IN  IF target = {}
        THEN [err |-> TRUE, updated |-> FALSE, D |-> D]
        ELSE LET c == CHOOSE x \in target : TRUE
                 D1 == [D EXCEPT !.AllocatedDevices[p][c] = @ \ {v},
                                 !.AvailableDevices[p] = @ \cup {v},
                                 !.requested[v] = Unset]
                 reset == /\ AllocatedUnder(D1, p) = {}
                          /\ D1.AllowReconfiguration[p]
                          /\ D1.Services[p] # None
             IN  [err |-> FALSE, updated |-> reset,
                  D |-> IF reset THEN [D1 EXCEPT !.Services[p] = None] ELSE D1]

\* VFDevice.Free(requestedBy): an empty requester resolves to the current claimant
Free(D, v, by) ==
    LET p == pfdevice(v)
        target == IF by = NoClaim THEN Holders(D, v) ELSE Holders(D, v) \cap {by}
    IN  IF target = {}
        THEN [err |-> TRUE, updated |-> FALSE, D |-> D]
        ELSE LET c == CHOOSE x \in target : TRUE
                 D1 == [D EXCEPT !.AllocatedDevices[p][c] = @ \ {v},
                                 !.AvailableDevices[p] = @ \cup {v},
                                 !.requested[v] = Unset]
                 reset == /\ AllocatedUnder(D1, p) = {}
                          /\ D1.AllowReconfiguration[p]
                          /\ D1.Services[p] # None
             IN  [err |-> FALSE, updated |-> reset,
                  D |-> IF reset THEN [D1 EXCEPT !.Services[p] = None] ELSE D1]

\* mutant of getVFs: the rescan rebuilds AvailableDevices wholesale
getVFsOverwrite(D, p) ==
    [D EXCEPT !.AvailableDevices[p] = VFsOf(p)]

\* PFDevice.getVFs: rescan of the PF's VFs; a VF found under a claimant stays there
getVFs(D, p) ==
    [D EXCEPT !.AvailableDevices[p] = VFsOf(p) \ AllocatedUnder(D, p)]

\* ------------------------------------------------------------------------
\* nodeState.Allocate (cmd/kubelet-qat-plugin/node_state.go)
\* ------------------------------------------------------------------------
\* mutant of Allocate: the final error return is missing
AllocateNoError(D, v, svc, by) ==
    IF CheckAlreadyAllocated(D, v, svc, by)
    THEN [ok |-> TRUE, reconfigured |-> FALSE, D |-> D]
    ELSE LET a == AllocateFromConfigured(D, v, svc, by)
             b == AllocateWithReconfiguration(D, v, svc, by)
         IN  IF a.ok THEN [ok |-> TRUE, reconfigured |-> FALSE, D |-> a.D]
             ELSE IF b.ok THEN [ok |-> TRUE, reconfigured |-> TRUE, D |-> b.D]
             ELSE [ok |-> TRUE, reconfigured |-> FALSE, D |-> D]

\* mutant of Allocate: reconfiguration is tried before the configured PF
AllocateReconfigurationFirst(D, v, svc, by) ==
    IF CheckAlreadyAllocated(D, v, svc, by)
    THEN [ok |-> TRUE, reconfigured |-> FALSE, D |-> D]
    ELSE LET a == AllocateFromConfigured(D, v, svc, by)
             b == AllocateWithReconfiguration(D, v, svc, by)
         IN  IF b.ok THEN [ok |-> TRUE, reconfigured |-> TRUE, D |-> b.D]
             ELSE IF a.ok THEN [ok |-> TRUE, reconfigured |-> FALSE, D |-> a.D]
             ELSE [ok |-> FALSE, reconfigured |-> FALSE, D |-> D]

Allocate(D, v, svc, by) ==
    IF CheckAlreadyAllocated(D, v, svc, by)
    THEN [ok |-> TRUE, reconfigured |-> FALSE, D |-> D]
    ELSE LET a == AllocateFromConfigured(D, v, svc, by)
             b == AllocateWithReconfiguration(D, v, svc, by)
         IN  IF a.ok THEN [ok |-> TRUE, reconfigured |-> FALSE, D |-> a.D]
             ELSE IF b.ok THEN [ok |-> TRUE, reconfigured |-> TRUE, D |-> b.D]
             ELSE [ok |-> FALSE, reconfigured |-> FALSE, D |-> D]

\* ------------------------------------------------------------------------
\* nodeState.Prepare / nodeState.Unprepare
\* ------------------------------------------------------------------------
\* one entry of claim.Status.Allocation.Devices.Results; Mine: the entry's
\* driver and pool are this driver and this node
ResultEntries ==
    [Device : VFs \cup {Missing}, Mine : {TRUE}] \cup [Device : {Missing}, Mine : {FALSE}]

SeqsUpTo(S, n) == UNION {[1..k -> S] : k \in 1..n}

PreparedDevice(v) == [DeviceName |-> v, CDIDeviceIDs |-> <<CDIName(v), CDIName(ControlNode)>>]

\* the rollback loop of Prepare: Free(claim) on every allocatable device,
\* errors ignored
RECURSIVE FreeAll(_, _, _)
FreeAll(D, todo, c) ==
    IF todo = {} THEN D
    ELSE LET v == CHOOSE x \in todo : TRUE
         IN  FreeAll(Free(D, v, c).D, todo \ {v}, c)

RECURSIVE PrepareLoop(_, _, _, _, _)
PrepareLoop(D, results, i, c, acc) ==
    IF i > Len(results)
    THEN [err |-> "", D |-> D, Devices |-> acc]
    ELSE LET r == results[i]
         IN  IF ~r.Mine
             THEN PrepareLoop(D, results, i + 1, c, acc)
             ELSE IF r.Device \notin D.Allocatable
             THEN [err |-> "could not find allocatable device", D |-> D, Devices |-> acc]
             ELSE LET a == Allocate(D, r.Device, Unset, c)
                  IN  IF ~a.ok
                      THEN [err |-> "could not allocate device",
                            D |-> FreeAll(a.D, D.Allocatable, c), Devices |-> acc]
                      ELSE PrepareLoop(a.D, results, i + 1, c,
                                       Append(acc, PreparedDevice(r.Device)))

\* nodeState.Prepare: on success the claim's entry is stored in the in-memory
\* Ledger; the Ledger file is not written
Prepare(D, P, c, results) ==
    LET l == PrepareLoop(D, results, 1, c, <<>>)
    IN  [err |-> l.err, D |-> l.D,
         Prepared |-> IF l.err = "" THEN [P EXCEPT ![c] = Entry(l.Devices)] ELSE P]

\* helpers.NodeState.Unprepare: drop the claim's Ledger entry and persist
HelperUnprepare(L, c) ==
    IF L.Prepared[c].found
    THEN LET P1 == [L.Prepared EXCEPT ![c] = NoEntry]
         IN  [L EXCEPT !.Prepared = P1, !.disk = P1]
    ELSE L

\* nodeState.Unprepare: L carries the device state and both Ledgers
RECURSIVE UnprepareLoop(_, _, _, _)
UnprepareLoop(L, results, i, c) ==
    IF i > Len(results)
    THEN [status |-> "ok", updated |-> FALSE, L |-> L]
    ELSE LET r == results[i]
             L1 == HelperUnprepare(L, c)
         IN  IF r.Device \notin L.D.Allocatable
             THEN \* requestedDevice is nil: Free dereferences it
                  [status |-> "panic", updated |-> FALSE, L |-> L1]
             ELSE LET f == Free(L1.D, r.Device, c)
                  IN  IF f.err
                      THEN UnprepareLoop(L1, results, i + 1, c)
                      ELSE IF f.updated
                      THEN [status |-> "ok", updated |-> TRUE, L |-> [L1 EXCEPT !.D = f.D]]
                      ELSE UnprepareLoop([L1 EXCEPT !.D = f.D], results, i + 1, c)

Unprepare(L, c, results) == UnprepareLoop(L, results, 1, c)

\* ------------------------------------------------------------------------
\* driver.prepareResourceClaim
\* ------------------------------------------------------------------------
\* mutant of prepareResourceClaim: an already prepared claim is answered with
\* an empty result instead of the stored one
prepareResourceClaimEmptyResult(D, P, c, results) ==
    IF P[c].found
    THEN [status |-> "ok", res |-> <<>>, known |-> TRUE, D |-> D, Prepared |-> P]
    ELSE LET p == Prepare(D, P, c, results)
         IN  IF p.err # ""
             THEN [status |-> p.err, res |-> <<>>, known |-> FALSE,
                   D |-> p.D, Prepared |-> p.Prepared]
             ELSE [status |-> "ok", res |-> p.Prepared[c].Devices, known |-> FALSE,
                   D |-> p.D, Prepared |-> p.Prepared]

prepareResourceClaim(D, P, c, results) ==
    IF P[c].found
    THEN [status |-> "ok", res |-> P[c].Devices, known |-> TRUE, D |-> D, Prepared |-> P]
    ELSE LET p == Prepare(D, P, c, results)
         IN  IF p.err # ""
             THEN [status |-> p.err, res |-> <<>>, known |-> FALSE,
                   D |-> p.D, Prepared |-> p.Prepared]
             ELSE [status |-> "ok", res |-> p.Prepared[c].Devices, known |-> FALSE,
                   D |-> p.D, Prepared |-> p.Prepared]

\* ------------------------------------------------------------------------
\* cdihelpers.SyncDevices (pkg/qat/cdihelpers): the QAT specs of the registry
\* ------------------------------------------------------------------------
\* main: the file whose name SyncDevices generates; other: one more QAT spec
MainSpec == "main"
SpecFiles == {MainSpec, "other"}
NoSpec == [present |-> FALSE, Devices |-> {}]
SpecOf(devs) == [present |-> TRUE, Devices |-> devs]
EmptyRegistry == [f \in SpecFiles |-> NoSpec]
RegistryNames(reg) == UNION {reg[f].Devices : f \in {g \in SpecFiles : reg[g].present}}

\* the calls of SyncDevices that can fail: RemoveSpec and WriteSpec of a vendor
\* spec in the loop, WriteSpec in appendDevices
FailPoints == ({"remove", "write"} \X SpecFiles) \cup {<<"append", MainSpec>>}
\* getQatSpecs returns the specs in the order of the cache
SyncOrders == {<<MainSpec, "other">>, <<"other", MainSpec>>}

\* mutant of SyncSpec: a vendor spec left without devices is written
SyncSpecWriteEmpty(st, f, fail) ==
    LET have == st.reg[f].Devices
        kept == have \cap st.inv
        st1 == [st EXCEPT !.inv = @ \ kept,
                          !.vfspec = IF f = MainSpec THEN kept ELSE @]
    IN  IF have = kept THEN st1
        ELSE IF <<"write", f>> \in fail THEN [st1 EXCEPT !.failed = TRUE]
        ELSE [st1 EXCEPT !.reg[f] = SpecOf(kept)]

\* SyncDevices, loop body for the vendor spec f. st.inv is the vfdevices map,
\* from which every device found in a spec is deleted; st.vfspec is the device
\* list of the spec that appendDevices will extend. A failed RemoveSpec or
\* WriteSpec is logged and the loop goes on; st.failed remembers that a call
\* failed.
SyncSpec(st, f, fail) ==
    LET have == st.reg[f].Devices
        kept == have \cap st.inv
        st1 == [st EXCEPT !.inv = @ \ kept,
                          !.vfspec = IF f = MainSpec THEN kept ELSE @]
    IN  IF have = kept THEN st1
        ELSE IF kept = {}
        THEN IF <<"remove", f>> \in fail THEN [st1 EXCEPT !.failed = TRUE]
             ELSE [st1 EXCEPT !.reg[f] = NoSpec]
        ELSE IF <<"write", f>> \in fail THEN [st1 EXCEPT !.failed = TRUE]
        ELSE [st1 EXCEPT !.reg[f] = SpecOf(kept)]

RECURSIVE SyncLoop(_, _, _, _)
SyncLoop(st, order, i, fail) ==
    IF i > Len(order) THEN st
    ELSE SyncLoop(IF st.reg[order[i]].present THEN SyncSpec(st, order[i], fail) ELSE st,
                  order, i + 1, fail)

\* SyncDevices(cdiCache, vfdevices): inv in the result is the caller's map
\* after the call
SyncDevices(reg, inv, order, fail) ==
    LET st == SyncLoop([reg |-> reg, inv |-> inv, vfspec |-> {}, failed |-> FALSE],
                       order, 1, fail)
    IN  IF st.inv = {}
        THEN [err |-> FALSE, failed |-> st.failed, reg |-> st.reg, inv |-> st.inv]
        ELSE IF <<"append", MainSpec>> \in fail
        THEN [err |-> TRUE, failed |-> TRUE, reg |-> st.reg, inv |-> st.inv]
        ELSE [err |-> FALSE, failed |-> st.failed, inv |-> st.inv,
              reg |-> [st.reg EXCEPT ![MainSpec] = SpecOf(st.vfspec \cup st.inv)]]

\* newNodeState on a node whose registry holds no QAT spec
FirstStart == SyncDevices(EmptyRegistry, VFs, <<MainSpec, "other">>, {})

\* ------------------------------------------------------------------------
\* Initial state and actions
\* ------------------------------------------------------------------------
SetDevState(D) ==
    /\ Services' = D.Services
    /\ AllowReconfiguration' = D.AllowReconfiguration
    /\ AvailableDevices' = D.AvailableDevices
    /\ AllocatedDevices' = D.AllocatedDevices
    /\ requested' = D.requested
    /\ Allocatable' = D.Allocatable

\* known: the claim was found in the Ledger ("already prepared, nothing to do"),
\* or, for Allocate, the VF was found allocated to the requester
Outcome(op, c, status, res, updated, known) ==
    [op |-> op, claim |-> c, status |-> status, res |-> res, updated |-> updated,
     known |-> known]

\* device.New: every VF of every PF is available, nothing is allocated
DiscoveredAvailable == [p \in PFs |-> VFsOf(p)]
DiscoveredAllocated == [p \in PFs |-> [c \in Claims |-> {}]]
NothingRequested == [v \in VFs |-> Unset]

\* claim A names one VF of this node, claim B up to MaxResults entries of any kind
ClaimResultSets ==
    [A : {<<e>> : e \in [Device : {<<"aa", 1>>, <<"bb", 1>>}, Mine : {TRUE}]},
     B : SeqsUpTo(ResultEntries, MaxResults)]

Init ==
    /\ up = TRUE
    /\ Services \in InitServices
    /\ AllowReconfiguration \in InitReconfiguration
    /\ AvailableDevices = DiscoveredAvailable
    /\ AllocatedDevices = DiscoveredAllocated
    /\ requested = NothingRequested
    /\ Prepared = EmptyLedger
    /\ disk = EmptyLedger
    /\ claimResults \in ClaimResultSets
    /\ last = Outcome("init", NoClaim, "ok", <<>>, FALSE, FALSE)
    /\ Allocatable = FirstStart.inv
    /\ registry = FirstStart.reg
    /\ conc = Idle /\ hm = Idle /\ gaudi = Idle /\ taints = Idle /\ scan = Idle

\* driver.PrepareResourceClaims for one claim
PrepareResourceClaim(c) ==
    /\ up
    /\ LET r == prepareResourceClaim(DevState, Prepared, c, claimResults[c])
       IN  /\ SetDevState(r.D)
           /\ Prepared' = r.Prepared
           /\ last' = Outcome("prepare", c, r.status, r.res, FALSE, r.known)
    /\ UNCHANGED <<up, disk, claimResults>>
    /\ UNCHANGED <<registry, conc, hm, gaudi, taints, scan>>

\* driver.UnprepareResourceClaims for one claim
UnprepareResourceClaim(c) ==
    /\ up
    /\ LET u == Unprepare([D |-> DevState, Prepared |-> Prepared, disk |-> disk],
                          c, claimResults[c])
       IN  /\ SetDevState(u.L.D)
           /\ Prepared' = u.L.Prepared
           /\ disk' = u.L.disk
           /\ up' = (u.status # "panic")
           /\ last' = Outcome("unprepare", c, u.status, <<>>, u.updated, FALSE)
    /\ UNCHANGED claimResults
    /\ UNCHANGED <<registry, conc, hm, gaudi, taints, scan>>

\* process start: newDriver, newNodeState. SyncDevices runs on the registry the
\* previous process left behind and deletes from the detected devices every
\* one it finds there; what is left becomes Allocatable.
Restart ==
    /\ up' = TRUE
    /\ Services' \in InitServices
    /\ AvailableDevices' = DiscoveredAvailable
    /\ AllocatedDevices' = DiscoveredAllocated
    /\ requested' = NothingRequested
    /\ \E order \in SyncOrders :
          LET r == SyncDevices(registry, VFs, order, {})
          IN  /\ registry' = r.reg
              /\ Allocatable' = r.inv
    /\ Prepared' = disk
    /\ last' = Outcome("restart", NoClaim, "ok", <<>>, FALSE, FALSE)
    /\ UNCHANGED <<AllowReconfiguration, disk, claimResults>>
    /\ UNCHANGED <<conc, hm, gaudi, taints, scan>>

\* a rescan of one PF; the outcome names the PF
Rescan(p) ==
    /\ up
    /\ SetDevState(getVFs(DevState, p))
    /\ last' = Outcome("rescan", p, "ok", <<>>, FALSE, FALSE)
    /\ UNCHANGED <<up, Prepared, disk, claimResults>>
    /\ UNCHANGED <<registry, conc, hm, gaudi, taints, scan>>

Next ==
    \/ \E c \in Claims : PrepareResourceClaim(c)
    \/ \E c \in Claims : UnprepareResourceClaim(c)
    \/ Restart
    \/ \E p \in PFs : Rescan(p)

Spec == Init /\ [][Next]_vars

\* ------------------------------------------------------------------------
\* The plugin over node reboots and with new claims arriving. CdiRoot and
\* KubeletPluginDir are two directories: a start can find the Ledger file of
\* the previous process and a registry without QAT specs.
\* ------------------------------------------------------------------------
\* process start with the Ledger file kept and the CDI directory emptied
Reboot ==
    /\ up' = TRUE
    /\ Services' \in InitServices
    /\ AvailableDevices' = DiscoveredAvailable
    /\ AllocatedDevices' = DiscoveredAllocated
    /\ requested' = NothingRequested
    /\ LET r == SyncDevices(EmptyRegistry, VFs, <<MainSpec, "other">>, {})
       IN  /\ registry' = r.reg
           /\ Allocatable' = r.inv
    /\ Prepared' = disk
    /\ last' = Outcome("reboot", NoClaim, "ok", <<>>, FALSE, FALSE)
    /\ UNCHANGED <<AllowReconfiguration, disk, claimResults>>
    /\ UNCHANGED <<conc, hm, gaudi, taints, scan>>

\* the allocation results of a new claim: one VF of this node
NewClaimResults == {<<[Device |-> v, Mine |-> TRUE]>> : v \in VFs}

\* a claim the plugin has not seen: c has no Ledger entry and holds no VF, and
\* stands for a new claim UID from here on
NewClaim(c, results) ==
    /\ up
    /\ ~Prepared[c].found /\ ~disk[c].found
    /\ \A p \in PFs : AllocatedDevices[p][c] = {}
    /\ claimResults' = [claimResults EXCEPT ![c] = results]
    /\ last' = Outcome("newclaim", c, "ok", <<>>, FALSE, FALSE)
    /\ UNCHANGED <<up, Services, AllowReconfiguration, AvailableDevices,
                   AllocatedDevices, requested, Prepared, disk, Allocatable>>
    /\ UNCHANGED <<registry, conc, hm, gaudi, taints, scan>>

InitReboot ==
    /\ Init
    /\ claimResults \in [Claims -> NewClaimResults]

NextReboot ==
    \/ \E c \in Claims : PrepareResourceClaim(c)
    \/ \E c \in Claims : UnprepareResourceClaim(c)
    \/ Restart
    \/ Reboot
    \/ \E c \in Claims, results \in NewClaimResults : NewClaim(c, results)

SpecReboot == InitReboot /\ [][NextReboot]_vars

\* ------------------------------------------------------------------------
\* The allocation engine driven directly: nodeState.Allocate with any service
\* and requester, VFDevice.Free, PFDevice.getVFs
\* ------------------------------------------------------------------------
Claimants == Claims \cup {NoClaim}

InitAlloc ==
    /\ up = TRUE
    /\ Services \in InitServices
    /\ AllowReconfiguration \in InitReconfiguration
    /\ AvailableDevices = DiscoveredAvailable
    /\ AllocatedDevices = DiscoveredAllocated
    /\ requested = NothingRequested
    /\ Prepared = EmptyLedger
    /\ disk = EmptyLedger
    /\ claimResults = [c \in Claims |-> <<[Device |-> Missing, Mine |-> FALSE]>>]
    /\ last = Outcome("init", NoClaim, "ok", <<>>, FALSE, FALSE)
    /\ Allocatable = FirstStart.inv
    /\ registry = FirstStart.reg
    /\ conc = Idle /\ hm = Idle /\ gaudi = Idle /\ taints = Idle /\ scan = Idle

AllocateOp(v, svc, by) ==
    /\ up
    /\ LET a == Allocate(DevState, v, svc, by)
       IN  /\ SetDevState(a.D)
           /\ last' = Outcome("allocate", by,
                              IF a.ok THEN "ok" ELSE "could not allocate device",
                              <<>>, a.reconfigured,
                              CheckAlreadyAllocated(DevState, v, svc, by))
    /\ UNCHANGED <<up, Prepared, disk, claimResults>>
    /\ UNCHANGED <<registry, conc, hm, gaudi, taints, scan>>

FreeOp(v, by) ==
    /\ up
    /\ LET f == Free(DevState, v, by)
       IN  /\ SetDevState(f.D)
           /\ last' = Outcome("free", by, IF f.err THEN "not allocated" ELSE "ok",
                              <<>>, f.updated, FALSE)
    /\ UNCHANGED <<up, Prepared, disk, claimResults>>
    /\ UNCHANGED <<registry, conc, hm, gaudi, taints, scan>>

\* every operation of the engine touches only the PF of the VF it is given:
\* the direct drive works on the VFs of the PF whose profile can change
EngineVFs == VFsOf("aa")

NextAlloc ==
    \/ \E v \in EngineVFs, svc \in RequestServices, by \in Claimants : AllocateOp(v, svc, by)
    \/ \E v \in EngineVFs, by \in Claimants : FreeOp(v, by)
    \/ \E p \in PFs : Rescan(p)

SpecAlloc == InitAlloc /\ [][NextAlloc]_vars

\* ------------------------------------------------------------------------
\* The steps of nodeState.Allocate called one by one, as the tests of the
\* engine call them: VFDevice.AllocateFromConfigured,
\* VFDevice.AllocateWithReconfiguration, VFDevice.Free
\* ------------------------------------------------------------------------
AllocateFromConfiguredOp(v, svc, by) ==
    /\ up
    /\ LET a == AllocateFromConfigured(DevState, v, svc, by)
       IN  /\ SetDevState(a.D)
           /\ last' = Outcome("allocateFromConfigured", by,
                              IF a.ok THEN "ok" ELSE "false", <<v>>, FALSE, FALSE)
    /\ UNCHANGED <<up, Prepared, disk, claimResults>>
    /\ UNCHANGED <<registry, conc, hm, gaudi, taints, scan>>

AllocateWithReconfigurationOp(v, svc, by) ==
    /\ up
    /\ LET a == AllocateWithReconfiguration(DevState, v, svc, by)
       IN  /\ SetDevState(a.D)
           /\ last' = Outcome("allocateWithReconfiguration", by,
                              IF a.ok THEN "ok" ELSE "false", <<v>>, a.ok, FALSE)
    /\ UNCHANGED <<up, Prepared, disk, claimResults>>
    /\ UNCHANGED <<registry, conc, hm, gaudi, taints, scan>>

NextEngine ==
    \/ \E v \in EngineVFs, svc \in RequestServices, by \in Claimants :
          AllocateFromConfiguredOp(v, svc, by)
    \/ \E v \in EngineVFs, svc \in RequestServices \ {Unset}, by \in Claimants :
          AllocateWithReconfigurationOp(v, svc, by)
    \/ \E v \in EngineVFs, by \in Claimants : FreeOp(v, by)

SpecEngine == InitAlloc /\ [][NextEngine]_vars

Ledgers == [D |-> DevState, Prepared |-> Prepared, disk |-> disk]

SetLedgers(L) ==
    /\ SetDevState(L.D)
    /\ Prepared' = L.Prepared
    /\ disk' = L.disk

\* ------------------------------------------------------------------------
\* Batches: driver.PrepareResourceClaims and driver.UnprepareResourceClaims with
\* several claims in one call
\* ------------------------------------------------------------------------
\* a claim of the batch without an entry in the response map
NoResult == "none"
EmptyResponse == [c \in Claims |-> NoResult]
\* the claims of one call: no claim twice
Batches == {b \in SeqsUpTo(Claims, Cardinality(Claims)) :
               \A i, j \in 1..Len(b) : i # j => b[i] # b[j]}
\* what the API server answers when UnprepareResourceClaims fetches the claim
Lookups == {"ok", "notfound", "unallocated"}

\* PrepareResourceClaims: response[claim.UID] = d.prepareResourceClaim(claim)
RECURSIVE PrepareResourceClaims(_, _, _, _, _)
PrepareResourceClaims(L, batch, i, results, resp) ==
    IF i > Len(batch) THEN [L |-> L, resp |-> resp, err |-> FALSE, crashed |-> FALSE]
    ELSE LET c == batch[i]
             r == prepareResourceClaim(L.D, L.Prepared, c, results[c])
         IN  PrepareResourceClaims([L EXCEPT !.D = r.D, !.Prepared = r.Prepared],
                                   batch, i + 1, results,
                                   [resp EXCEPT ![c] = IF r.status = "ok" THEN "ok" ELSE "err"])

\* UnprepareResourceClaims: a claim that cannot be fetched, or is not
\* allocated, ends the call with an error; an Unprepare error is stored under
\* the claim; a successful Unprepare stores nothing
RECURSIVE UnprepareResourceClaims(_, _, _, _, _, _)
UnprepareResourceClaims(L, batch, i, results, lookup, resp) ==
    IF i > Len(batch) THEN [L |-> L, resp |-> resp, err |-> FALSE, crashed |-> FALSE]
    ELSE LET c == batch[i]
         IN  IF lookup[c] # "ok"
             THEN [L |-> L, resp |-> resp, err |-> TRUE, crashed |-> FALSE]
             ELSE LET u == Unprepare(L, c, results[c])
                  IN  IF u.status = "panic"
                      THEN [L |-> u.L, resp |-> resp, err |-> FALSE, crashed |-> TRUE]
                      ELSE IF u.status # "ok"
                      THEN UnprepareResourceClaims(u.L, batch, i + 1, results, lookup,
                                                   [resp EXCEPT ![c] = "err"])
                      ELSE UnprepareResourceClaims(u.L, batch, i + 1, results, lookup, resp)

BatchOutcome(op, batch, r) ==
    [op |-> op, batch |-> batch, resp |-> r.resp, err |-> r.err]

PrepareBatch(batch) ==
    /\ up
    /\ LET r == PrepareResourceClaims(Ledgers, batch, 1, claimResults, EmptyResponse)
       IN  /\ SetLedgers(r.L)
           /\ last' = BatchOutcome("prepare", batch, r)
    /\ UNCHANGED <<up, claimResults, registry, conc, hm, gaudi, taints, scan>>

UnprepareBatch(batch, lookup) ==
    /\ up
    /\ LET r == UnprepareResourceClaims(Ledgers, batch, 1, claimResults, lookup,
                                        EmptyResponse)
       IN  /\ SetLedgers(r.L)
           /\ up' = ~r.crashed
           /\ last' = BatchOutcome("unprepare", batch, r)
    /\ UNCHANGED <<claimResults, registry, conc, hm, gaudi, taints, scan>>

\* claim A names one VF, claim B up to MaxResults entries, a VF or a device
\* that is not in the inventory
InitBatch ==
    /\ up = TRUE
    /\ Services \in InitServices
    /\ AllowReconfiguration \in InitReconfiguration
    /\ AvailableDevices = DiscoveredAvailable
    /\ AllocatedDevices = DiscoveredAllocated
    /\ requested = NothingRequested
    /\ Prepared = EmptyLedger
    /\ disk = EmptyLedger
    /\ claimResults \in
          [A : {<<[Device |-> <<"aa", 1>>, Mine |-> TRUE]>>},
           B : SeqsUpTo([Device : {<<"aa", 1>>, <<"aa", 2>>, Missing}, Mine : {TRUE}],
                        MaxResults)]
    /\ last = BatchOutcome("init", <<>>, [resp |-> EmptyResponse, err |-> FALSE])
    /\ Allocatable = FirstStart.inv
    /\ registry = FirstStart.reg
    /\ conc = Idle /\ hm = Idle /\ gaudi = Idle /\ taints = Idle /\ scan = Idle

NextBatch ==
    \/ \E batch \in Batches : PrepareBatch(batch)
    \/ \E batch \in Batches, lookup \in [Claims -> Lookups] : UnprepareBatch(batch, lookup)

SpecBatch == InitBatch /\ [][NextBatch]_vars

\* ------------------------------------------------------------------------
\* Concurrent request handlers: two gRPC handler goroutines, each serving one
\* PrepareResourceClaims or UnprepareResourceClaims call for the same claim
\* ------------------------------------------------------------------------
Threads == {"t1", "t2"}
Calls == {"prepare", "unprepare"}
ConcClaim == "A"
NoThread == ""
NoResp == [status |-> "", res |-> <<>>]

\* what the body of nodeState.Prepare / nodeState.Unprepare, between Lock and
\* Unlock, does to the state L
CriticalSection(call, L, results) ==
    IF call = "prepare"
    THEN LET p == Prepare(L.D, L.Prepared, ConcClaim, results)
         IN  [status |-> IF p.err = "" THEN "ok" ELSE p.err, updated |-> FALSE,
              L |-> [L EXCEPT !.D = p.D, !.Prepared = p.Prepared]]
    ELSE Unprepare(L, ConcClaim, results)

\* another goroutine holds the lock and is inside Prepare or Unprepare
Racing(t) == \E u \in Threads \ {t} : conc.pc[u] = "in"

\* d.state.Prepared[uid] read without the lock: the stored entry, or, while
\* another goroutine is inside its critical section, also the entry that
\* goroutine is about to leave behind
Observed(t) ==
    {Prepared[ConcClaim]} \cup
    {CriticalSection(conc.call[u], Ledgers, claimResults[ConcClaim]).L.Prepared[ConcClaim] :
        u \in {x \in Threads \ {t} : conc.pc[x] = "in"}}

\* prepareResourceClaim, first statement: the already-prepared check
CheckPrepared(t) ==
    /\ up /\ conc.call[t] = "prepare" /\ conc.pc[t] = "start"
    /\ \E e \in Observed(t) :
          conc' = IF e.found
                  THEN [conc EXCEPT !.pc[t] = "done",
                                    !.resp[t] = [status |-> "ok", res |-> e.Devices]]
                  ELSE [conc EXCEPT !.pc[t] = "want"]
    /\ UNCHANGED <<up, Services, AllowReconfiguration, AvailableDevices, AllocatedDevices,
                   requested, Prepared, disk, claimResults, last, Allocatable, registry,
                   hm, gaudi, taints, scan>>

\* s.Lock() of nodeState.Prepare and nodeState.Unprepare
Lock(t) ==
    /\ up /\ conc.lock = NoThread
    /\ \/ conc.call[t] = "prepare" /\ conc.pc[t] = "want"
       \/ conc.call[t] = "unprepare" /\ conc.pc[t] = "start"
    /\ conc' = [conc EXCEPT !.pc[t] = "in", !.lock = t]
    /\ UNCHANGED <<up, Services, AllowReconfiguration, AvailableDevices, AllocatedDevices,
                   requested, Prepared, disk, claimResults, last, Allocatable, registry,
                   hm, gaudi, taints, scan>>

\* the body of nodeState.Prepare / nodeState.Unprepare and the deferred Unlock
Unlock(t) ==
    /\ up /\ conc.pc[t] = "in" /\ conc.lock = t
    /\ LET r == CriticalSection(conc.call[t], Ledgers, claimResults[ConcClaim])
       IN  /\ SetLedgers(r.L)
           /\ up' = (r.status # "panic")
           /\ conc' = [conc EXCEPT
                 !.lock = NoThread,
                 !.pc[t] = IF conc.call[t] = "prepare"
                           THEN IF r.status = "ok" THEN "ret" ELSE "done"
                           ELSE IF r.updated THEN "publish" ELSE "done",
                 !.resp[t] = IF conc.call[t] = "prepare" /\ r.status = "ok"
                             THEN NoResp
                             ELSE [status |-> r.status, res |-> <<>>]]
    /\ UNCHANGED <<claimResults, last, registry, hm, gaudi, taints, scan>>

\* prepareResourceClaim, last statement: return d.state.Prepared[uid]; a missing
\* key yields the zero PrepareResult, a success without devices
ReturnPrepared(t) ==
    /\ up /\ conc.pc[t] = "ret"
    /\ \E e \in Observed(t) :
          conc' = [conc EXCEPT !.pc[t] = "done",
                               !.resp[t] = [status |-> "ok", res |-> e.Devices]]
    /\ UNCHANGED <<up, Services, AllowReconfiguration, AvailableDevices, AllocatedDevices,
                   requested, Prepared, disk, claimResults, last, Allocatable, registry,
                   hm, gaudi, taints, scan>>

\* PublishResourceSlice after an Unprepare that changed a PF: GetResources
\* walks the allocation maps without the lock
GetResources(t) ==
    /\ up /\ conc.pc[t] = "publish"
    /\ conc' = [conc EXCEPT !.pc[t] = "done"]
    /\ UNCHANGED <<up, Services, AllowReconfiguration, AvailableDevices, AllocatedDevices,
                   requested, Prepared, disk, claimResults, last, Allocatable, registry,
                   hm, gaudi, taints, scan>>

\* the Go runtime aborts the process when it detects a map read concurrent
\* with a map write ("fatal error: concurrent map read and map write")
ConcurrentMapAccess(t) ==
    /\ up /\ Racing(t)
    /\ \/ conc.call[t] = "prepare" /\ conc.pc[t] = "start"
       \/ conc.pc[t] \in {"ret", "publish"}
    /\ up' = FALSE
    /\ UNCHANGED <<Services, AllowReconfiguration, AvailableDevices, AllocatedDevices,
                   requested, Prepared, disk, claimResults, last, Allocatable, registry,
                   conc, hm, gaudi, taints, scan>>

\* the claim names up to MaxResults VFs of this node; the handlers start on a
\* fresh node or after one PrepareResourceClaims call for the claim
InitConc ==
    /\ up = TRUE
    /\ claimResults \in [A : SeqsUpTo([Device : VFs, Mine : {TRUE}], MaxResults),
                         B : {<<[Device |-> Missing, Mine |-> FALSE]>>}]
    /\ \E svc \in InitServices, rec \in InitReconfiguration, pre \in BOOLEAN :
          LET D0 == [Services |-> svc, AllowReconfiguration |-> rec,
                     AvailableDevices |-> DiscoveredAvailable,
                     AllocatedDevices |-> DiscoveredAllocated,
                     requested |-> NothingRequested, Allocatable |-> FirstStart.inv]
              r == prepareResourceClaim(D0, EmptyLedger, ConcClaim, claimResults[ConcClaim])
              D1 == IF pre THEN r.D ELSE D0
              P1 == IF pre THEN r.Prepared ELSE EmptyLedger
          IN  /\ Services = D1.Services
              /\ AllowReconfiguration = D1.AllowReconfiguration
              /\ AvailableDevices = D1.AvailableDevices
              /\ AllocatedDevices = D1.AllocatedDevices
              /\ requested = D1.requested
              /\ Allocatable = D1.Allocatable
              /\ Prepared = P1
              /\ disk = EmptyLedger
              /\ \E calls \in [Threads -> Calls] :
                    conc = [call |-> calls, pc |-> [t \in Threads |-> "start"],
                            lock |-> NoThread, resp |-> [t \in Threads |-> NoResp],
                            start |-> [D |-> D1, Prepared |-> P1, disk |-> EmptyLedger]]
    /\ last = Outcome("init", NoClaim, "ok", <<>>, FALSE, FALSE)
    /\ registry = FirstStart.reg
    /\ hm = Idle /\ gaudi = Idle /\ taints = Idle /\ scan = Idle

NextConc ==
    \/ \E t \in Threads : CheckPrepared(t)
    \/ \E t \in Threads : Lock(t)
    \/ \E t \in Threads : Unlock(t)
    \/ \E t \in Threads : ReturnPrepared(t)
    \/ \E t \in Threads : GetResources(t)
    \/ \E t \in Threads : ConcurrentMapAccess(t)

SpecConc == InitConc /\ [][NextConc]_vars

\* ------------------------------------------------------------------------
\* GPU health: goxpusmi.HealthCheck and driver.updateHealth
\* ------------------------------------------------------------------------
HealthTypeNames ==
    <<"CoreThermal", "MemoryThermal", "Power", "Memory", "FabricPort", "Frequency">>
HealthTypes == {HealthTypeNames[i] : i \in 1..NumHealthTypes}

\* xpum_health_status_t; OTHER stands for a value outside the enumeration
XpumStatuses == {"UNKNOWN", "OK", "WARNING", "CRITICAL", "OTHER"}
\* xpumGetHealth returned something else than XPUM_OK
ReadFailed == "failed"

\* the healthStatuses map; a key that is not in the map yields the empty string
healthStatuses(st) ==
    CASE st = "UNKNOWN" -> "Unknown"
      [] st = "OK" -> "OK"
      [] st = "WARNING" -> "Warning"
      [] st = "CRITICAL" -> "Critical"
      [] OTHER -> ""

\* devices reported by goxpusmi.Discover, named by their device UID
GpuDevices == {"gpu0"}
\* no entry in DeviceInfo.HealthStatus
NoStatus == "none"

Readings == [GpuDevices -> [HealthTypes -> XpumStatuses \cup {ReadFailed}]]

Baseline(status) == [ty \in HealthTypes |-> status]

\* deviceHealthCache[d] after the baseline of a first-seen device is stored
Seeded(cache, d, baseline) == IF d \in DOMAIN cache THEN cache[d] ELSE Baseline(baseline)

\* the read succeeded and prevStatus # currStatus
Changed(prev, curr) == curr # ReadFailed /\ curr # prev

\* mutant of HealthCheck: a device seen for the first time is cached as UNKNOWN
HealthCheckBaselineUnknown(cache, r) ==
    [cache |-> [d \in GpuDevices |->
                   [ty \in HealthTypes |->
                       IF Changed(Seeded(cache, d, "UNKNOWN")[ty], r[d][ty])
                       THEN r[d][ty] ELSE Seeded(cache, d, "UNKNOWN")[ty]]],
     updates |-> [d \in {x \in GpuDevices : \E ty \in HealthTypes :
                            Changed(Seeded(cache, x, "UNKNOWN")[ty], r[x][ty])} |->
                     [ty \in {t \in HealthTypes :
                                 Changed(Seeded(cache, d, "UNKNOWN")[t], r[d][t])} |->
                         healthStatuses(r[d][ty])]]]

\* goxpusmi.HealthCheck: r is what xpumGetHealth returns for each device and
\* category during this call; cache is deviceHealthCache
HealthCheck(cache, r) ==
    [cache |-> [d \in GpuDevices |->
                   [ty \in HealthTypes |->
                       IF Changed(Seeded(cache, d, "OK")[ty], r[d][ty])
                       THEN r[d][ty] ELSE Seeded(cache, d, "OK")[ty]]],
     updates |-> [d \in {x \in GpuDevices : \E ty \in HealthTypes :
                            Changed(Seeded(cache, x, "OK")[ty], r[x][ty])} |->
                     [ty \in {t \in HealthTypes :
                                 Changed(Seeded(cache, d, "OK")[t], r[d][t])} |->
                         healthStatuses(r[d][ty])]]]

\* mutant of statusHealth: an unsupported value counts as healthy
statusHealthLenient(status) ==
    IF status = "Critical" THEN "unhealthy" ELSE "healthy"

\* statusHealth: true, false, or panic("invalid status value")
statusHealth(status) ==
    CASE status = "Critical" -> "unhealthy"
      [] status = "Warning" -> "healthy"
      [] status = "OK" -> "healthy"
      [] status = "Unknown" -> "healthy"
      [] OTHER -> "panic"

\* the part of the GPU nodeState that updateHealth works on
HealthState ==
    [allocatable |-> hm.allocatable, Healthy |-> hm.Healthy, HealthStatus |-> hm.HealthStatus]

\* updateHealth, body of the loop for one known device d
updateDevice(S, d, statuses) ==
    [S EXCEPT !.HealthStatus[d] = [ty \in HealthTypes |->
                                      IF ty \in DOMAIN statuses THEN statuses[ty] ELSE @[ty]],
              !.Healthy[d] = \A ty \in DOMAIN statuses : statusHealth(statuses[ty]) = "healthy"]

\* updateHealth: the possible outcomes of the loop over the devices todo of the
\* delta, a Go map that is walked in any order. An unknown device ends the call
\* before PublishResourceSlice; an unsupported status panics, which ends the
\* process, so the HealthStatus entries written before it are not kept.
RECURSIVE updateHealthFrom(_, _, _)
updateHealthFrom(S, delta, todo) ==
    IF todo = {}
    THEN {[S |-> S, published |-> TRUE, panic |-> FALSE]}
    ELSE UNION {IF d \notin S.allocatable
                THEN {[S |-> S, published |-> FALSE, panic |-> FALSE]}
                ELSE IF \E ty \in DOMAIN delta[d] : statusHealth(delta[d][ty]) = "panic"
                THEN {[S |-> S, published |-> FALSE, panic |-> TRUE]}
                ELSE updateHealthFrom(updateDevice(S, d, delta[d]), delta, todo \ {d}) :
                d \in todo}

updateHealth(S, delta) == updateHealthFrom(S, delta, DOMAIN delta)

qatVars == <<Services, AllowReconfiguration, AvailableDevices, AllocatedDevices,
             requested, Prepared, disk, claimResults, last, Allocatable, registry>>

\* the QAT plugin is not part of the GPU plugin's process
QatFresh ==
    /\ Services = [aa |-> None, bb |-> Dc]
    /\ AllowReconfiguration = [aa |-> FALSE, bb |-> FALSE]
    /\ AvailableDevices = DiscoveredAvailable
    /\ AllocatedDevices = DiscoveredAllocated
    /\ requested = NothingRequested
    /\ Prepared = EmptyLedger
    /\ disk = EmptyLedger
    /\ claimResults = [c \in Claims |-> <<[Device |-> Missing, Mine |-> FALSE]>>]
    /\ last = Outcome("init", NoClaim, "ok", <<>>, FALSE, FALSE)
    /\ Allocatable = FirstStart.inv
    /\ registry = FirstStart.reg

NoDelta == [d \in {} |-> Baseline("")]
\* readings are kept only where HealthCheck is driven by itself
NoReadings == [d \in {} |-> Baseline(ReadFailed)]

\* GPU plugin after newDriver: all devices healthy, nothing polled yet; a
\* device known to the telemetry library need not be allocatable. The library
\* is initialized, the context is live, startHealthMonitor is at its select
\* and watchGPUHealthStatuses at its first statement.
HealthFresh ==
    [ignoreHealthWarning : BOOLEAN,
     allocatable : SUBSET GpuDevices,
     cache : {NoDelta},
     Healthy : {[d \in GpuDevices |-> TRUE]},
     HealthStatus : {[d \in GpuDevices |-> Baseline(NoStatus)]},
     delta : {NoDelta},
     published : {FALSE},
     readings : {NoReadings},
     ctx : {"live"},
     mon : {"select"},
     watch : {"discover"},
     sending : {NoDelta},
     lock : {NoThread},
     handler : {"idle"},
     xpum : {"initialized"}]

InitHealth ==
    /\ up = TRUE
    /\ QatFresh
    /\ hm \in HealthFresh
    /\ conc = Idle /\ gaudi = Idle /\ taints = Idle /\ scan = Idle

\* one tick of the watcher with the monitor loop ready: HealthCheck, and for a
\* non-empty delta the send on the channel, the receive and updateHealth
Tick(r) ==
    /\ up
    /\ LET h == HealthCheck(hm.cache, r)
       IN  IF h.updates = NoDelta
           THEN /\ hm' = [hm EXCEPT !.cache = h.cache, !.delta = NoDelta,
                                    !.published = FALSE]
                /\ up' = up
           ELSE \E o \in updateHealth(HealthState, h.updates) :
                   /\ hm' = [hm EXCEPT !.cache = h.cache, !.delta = h.updates,
                                       !.published = o.published,
                                       !.Healthy = o.S.Healthy,
                                       !.HealthStatus = o.S.HealthStatus]
                   /\ up' = ~o.panic
    /\ UNCHANGED <<qatVars, conc, gaudi, taints, scan>>

NextHealth == \E r \in Readings : Tick(r)

SpecHealth == InitHealth /\ [][NextHealth]_vars

\* driver.updateHealth driven by itself on a node with two GPUs, as
\* TestUpdateHealth_MultipleDevices drives it; WrongUid is in no inventory
UpdateDevices == {"gpu0", "gpu1"}
WrongUid == "wrong-uid"
\* one entry of HealthStatusUpdates: the health types that changed
UpdateEntries == {[ty \in {"CoreThermal"} |-> st] : st \in {"OK", "Warning", "Critical"}}
\* HealthStatusUpdates: device UID -> entry, at least one entry
HealthStatusUpdates ==
    UNION {[U -> UpdateEntries] : U \in (SUBSET (UpdateDevices \cup {WrongUid})) \ {{}}}

UpdateHealthOp(updates) ==
    /\ up
    /\ \E o \in updateHealth(HealthState, updates) :
          /\ hm' = [hm EXCEPT !.delta = updates, !.published = o.published,
                              !.Healthy = o.S.Healthy,
                              !.HealthStatus = o.S.HealthStatus]
          /\ up' = ~o.panic
    /\ UNCHANGED <<qatVars, conc, gaudi, taints, scan>>

InitUpdate ==
    /\ up = TRUE
    /\ QatFresh
    /\ hm = [allocatable |-> UpdateDevices,
             Healthy |-> [d \in UpdateDevices |-> TRUE],
             HealthStatus |-> [d \in UpdateDevices |-> Baseline(NoStatus)],
             delta |-> NoDelta, published |-> FALSE]
    /\ conc = Idle /\ gaudi = Idle /\ taints = Idle /\ scan = Idle

NextUpdate == \E updates \in HealthStatusUpdates : UpdateHealthOp(updates)

SpecUpdate == InitUpdate /\ [][NextUpdate]_vars

\* goxpusmi.HealthCheck driven by itself: one call with the readings r
Poll(r) ==
    /\ up
    /\ LET h == HealthCheck(hm.cache, r)
       IN  hm' = [hm EXCEPT !.cache = h.cache, !.delta = h.updates, !.readings = r]
    /\ UNCHANGED <<up, qatVars, conc, gaudi, taints, scan>>

NextPoll == \E r \in Readings : Poll(r)

\* the driver's own state plays no part in HealthCheck
InitPoll ==
    /\ up = TRUE
    /\ QatFresh
    /\ hm \in {h \in HealthFresh : h.ignoreHealthWarning /\ h.allocatable = GpuDevices}
    /\ conc = Idle /\ gaudi = Idle /\ taints = Idle /\ scan = Idle

SpecPoll == InitPoll /\ [][NextPoll]_vars

\* ------------------------------------------------------------------------
\* GPU health monitor as goroutines: startHealthMonitor, watchGPUHealthStatuses
\* and one request handler, with the unbuffered channel and the state lock
\* ------------------------------------------------------------------------
\* the monitored hardware is either fine or critical in every category
MonitorReadings ==
    {[d \in GpuDevices |-> Baseline(st)] : st \in {"OK", "CRITICAL"}}

\* mutant of PollLock: the poll is made under the state lock
PollLockTaken == TRUE

\* whether watchGPUHealthStatuses takes d.state.Lock() around HealthCheck
PollLock == FALSE

\* process shutdown cancels the context given to startHealthMonitor, and with
\* it goxpusmiCtx
Cancel ==
    /\ up /\ hm.ctx = "live"
    /\ hm' = [hm EXCEPT !.ctx = "cancelled"]
    /\ UNCHANGED <<up, qatVars, conc, gaudi, taints, scan>>

\* watchGPUHealthStatuses: goxpusmi.Discover; on error the goroutine returns
Discover(ok) ==
    /\ up /\ hm.watch = "discover"
    /\ hm' = [hm EXCEPT !.watch = IF ok THEN "select" ELSE "returned"]
    /\ UNCHANGED <<up, qatVars, conc, gaudi, taints, scan>>

\* watchGPUHealthStatuses: the select takes the ticker case and HealthCheck
\* starts
TickerFires ==
    /\ up /\ hm.watch = "select"
    /\ PollLock => hm.lock = NoThread
    /\ hm' = [hm EXCEPT !.watch = "poll",
                        !.lock = IF PollLock THEN "watcher" ELSE @]
    /\ UNCHANGED <<up, qatVars, conc, gaudi, taints, scan>>

\* HealthCheck returns; a non-empty delta is offered on the channel
PollDone(r) ==
    /\ up /\ hm.watch = "poll"
    /\ LET h == HealthCheck(hm.cache, r)
       IN  hm' = [hm EXCEPT !.cache = h.cache,
                           !.sending = h.updates,
                           !.watch = IF h.updates = NoDelta THEN "select" ELSE "send",
                           !.lock = IF PollLock THEN NoThread ELSE @]
    /\ UNCHANGED <<up, qatVars, conc, gaudi, taints, scan>>

\* watchGPUHealthStatuses: the select takes ctx.Done: goxpusmi.Shutdown, return
WatcherStop ==
    /\ up /\ hm.watch = "select" /\ hm.ctx = "cancelled"
    /\ hm' = [hm EXCEPT !.watch = "returned", !.xpum = "shutdown"]
    /\ UNCHANGED <<up, qatVars, conc, gaudi, taints, scan>>

\* the channel is unbuffered: the watcher's send and the receive case of the
\* monitor's select happen together
Receive ==
    /\ up /\ hm.watch = "send" /\ hm.mon = "select"
    /\ hm' = [hm EXCEPT !.watch = "select", !.mon = "update",
                        !.delta = hm.sending, !.sending = NoDelta]
    /\ UNCHANGED <<up, qatVars, conc, gaudi, taints, scan>>

\* startHealthMonitor: the select takes goxpusmiCtx.Done: stopMonitor, return
MonitorStop ==
    /\ up /\ hm.mon = "select" /\ hm.ctx = "cancelled"
    /\ hm' = [hm EXCEPT !.mon = "returned"]
    /\ UNCHANGED <<up, qatVars, conc, gaudi, taints, scan>>

\* updateHealth: d.state.Lock()
UpdateLock ==
    /\ up /\ hm.mon = "update" /\ hm.lock = NoThread
    /\ hm' = [hm EXCEPT !.mon = "locked", !.lock = "monitor"]
    /\ UNCHANGED <<up, qatVars, conc, gaudi, taints, scan>>

\* updateHealth: the loop, PublishResourceSlice, the deferred Unlock
UpdateDone ==
    /\ up /\ hm.mon = "locked"
    /\ \E o \in updateHealth(HealthState, hm.delta) :
          /\ hm' = [hm EXCEPT !.mon = "select", !.lock = NoThread,
                              !.published = o.published,
                              !.Healthy = o.S.Healthy,
                              !.HealthStatus = o.S.HealthStatus]
          /\ up' = ~o.panic
    /\ UNCHANGED <<qatVars, conc, gaudi, taints, scan>>

\* kubelet calls PrepareResourceClaims or UnprepareResourceClaims
Request ==
    /\ up /\ hm.handler = "idle"
    /\ hm' = [hm EXCEPT !.handler = "want"]
    /\ UNCHANGED <<up, qatVars, conc, gaudi, taints, scan>>

\* nodeState.Prepare / Unprepare of the GPU plugin: take the state lock
HandlerLock ==
    /\ up /\ hm.handler = "want" /\ hm.lock = NoThread
    /\ hm' = [hm EXCEPT !.handler = "in", !.lock = "handler"]
    /\ UNCHANGED <<up, qatVars, conc, gaudi, taints, scan>>

\* nodeState.Prepare / Unprepare of the GPU plugin: body and Unlock
HandlerDone ==
    /\ up /\ hm.handler = "in"
    /\ hm' = [hm EXCEPT !.handler = "idle", !.lock = NoThread]
    /\ UNCHANGED <<up, qatVars, conc, gaudi, taints, scan>>

InitHM ==
    /\ up = TRUE
    /\ QatFresh
    /\ hm \in {h \in HealthFresh : h.allocatable = GpuDevices}
    /\ conc = Idle /\ gaudi = Idle /\ taints = Idle /\ scan = Idle

NextHM ==
    \/ Cancel
    \/ \E ok \in BOOLEAN : Discover(ok)
    \/ TickerFires
    \/ \E r \in MonitorReadings : PollDone(r)
    \/ WatcherStop
    \/ Receive
    \/ MonitorStop
    \/ UpdateLock
    \/ UpdateDone
    \/ Request
    \/ HandlerLock
    \/ HandlerDone

SpecHM == InitHM /\ [][NextHM]_vars

\* the Go scheduler runs every goroutine that can run; a select with several
\* ready cases picks one at random, so a case that is ready again and again is
\* taken eventually; sync.Mutex hands the lock to a waiter that would starve.
\* A handler holds the lock only for the length of its body. Cancellation,
\* ticks, requests and the time goxpusmi.HealthCheck takes are not bounded.
FairSlowPoll ==
    /\ WF_vars(\E ok \in BOOLEAN : Discover(ok))
    /\ SF_vars(WatcherStop)
    /\ SF_vars(Receive)
    /\ SF_vars(MonitorStop)
    /\ SF_vars(UpdateLock)
    /\ WF_vars(UpdateDone)
    /\ SF_vars(HandlerLock)
    /\ WF_vars(HandlerDone)

SlowPollSpecHM == SpecHM /\ FairSlowPoll

\* as above, and every call of goxpusmi.HealthCheck returns
FairSpecHM == SpecHM /\ FairSlowPoll /\ WF_vars(\E r \in MonitorReadings : PollDone(r))

\* ------------------------------------------------------------------------
\* CDI registries on disk: the QAT plugin's newNodeState with any detected
\* inventory and failing registry calls, and the Gaudi plugin's spec file
\* (pkg/gaudi/cdihelpers)
\* ------------------------------------------------------------------------
\* the VFs discovery can report in this scenario
SyncVFs == VFsOf("aa")
\* device names a QAT spec on disk can hold: those and one of a VF that is gone
SyncNames == SyncVFs \cup {Missing}
\* QAT spec files found on disk at the first start; the registry loads no spec
\* without devices
DiskSpecs == {NoSpec} \cup {SpecOf(n) : n \in SUBSET SyncNames \ {{}}}
\* at most one registry call fails during one operation
SyncFailures == {{}} \cup {{p} : p \in FailPoints}

GaudiDevices == {"accel0"}
GaudiFailures == {{}, {"remove"}, {"write"}}

\* a device of a Gaudi spec: its name and which container edits it carries.
\* addDevicesToSpecAndWrite writes device nodes only; the claim's device of
\* cdiHabanaEnvVar and NewBlankDevice has env variables, a hook and a mount
DeviceEntry(n) ==
    [Name |-> n, DeviceNodes |-> TRUE, Env |-> FALSE, Hooks |-> FALSE, Mounts |-> FALSE]
BlankEntry(c) ==
    [Name |-> c, DeviceNodes |-> FALSE, Env |-> TRUE, Hooks |-> TRUE, Mounts |-> TRUE]
Named(spec, n) == IF spec.present THEN {d \in spec.Devices : d.Name = n} ELSE {}

\* writeSpec (gaudi cdihelpers): a spec without devices is removed, any other
\* is written; spec is the file before the call
writeSpec(spec, devs, fail) ==
    IF devs = {}
    THEN IF "remove" \in fail THEN [err |-> TRUE, spec |-> spec]
         ELSE [err |-> FALSE, spec |-> NoSpec]
    ELSE IF "write" \in fail THEN [err |-> TRUE, spec |-> spec]
    ELSE [err |-> FALSE, spec |-> SpecOf(devs)]

\* AddDetectedDevicesToCDIRegistry: remove every Gaudi spec, then write the
\* detected devices into a new one
AddDetectedDevicesToCDIRegistry(spec, detected, fail) ==
    IF spec.present /\ "remove" \in fail THEN [err |-> TRUE, spec |-> spec]
    ELSE writeSpec(NoSpec, {DeviceEntry(n) : n \in detected}, fail)

\* NewBlankDevice: append the claim's device, with hook and mount added, to
\* the first vendor spec
NewBlankDevice(spec, c, fail) ==
    IF ~spec.present THEN [err |-> TRUE, spec |-> spec]
    ELSE writeSpec(spec, spec.Devices \cup {BlankEntry(c)}, fail)

\* DeleteBlankDevices: drop the claim's device from the spec that holds it
DeleteBlankDevices(spec, c, fail) ==
    IF Named(spec, c) = {} THEN [err |-> FALSE, spec |-> spec]
    ELSE writeSpec(spec, spec.Devices \ Named(spec, c), fail)

allocVars == <<Services, AllowReconfiguration, AvailableDevices, AllocatedDevices,
               requested, Prepared, disk, claimResults>>

\* failed: a call on the registry failed during the operation
SyncOutcome(op, status, detected, removed, failed) ==
    [op |-> op, status |-> status, detected |-> detected, removed |-> removed,
     failed |-> failed]

\* QAT newNodeState up to the construction of the node state: SyncDevices on
\* the registry found on disk; the map it was given becomes Allocatable
NewNodeState(detected, order, fail) ==
    LET r == SyncDevices(registry, detected, order, fail)
    IN  /\ registry' = r.reg
        /\ up' = ~r.err
        /\ Allocatable' = IF r.err THEN {} ELSE r.inv
        /\ last' = SyncOutcome("sync", IF r.err THEN "err" ELSE "ok", detected,
                               {f \in SpecFiles : registry[f].present /\ ~r.reg[f].present},
                               r.failed)
        /\ UNCHANGED <<allocVars, conc, hm, gaudi, taints, scan>>

GaudiDone(r) ==
    /\ gaudi' = [spec |-> r.spec, status |-> IF r.err THEN "err" ELSE "ok"]
    /\ UNCHANGED <<up, allocVars, last, Allocatable, registry, conc, hm, taints, scan>>

\* Gaudi newNodeState
GaudiNewNodeState(detected, fail) ==
    GaudiDone(AddDetectedDevicesToCDIRegistry(gaudi.spec, detected, fail))

\* Gaudi nodeState.cdiHabanaEnvVar for a claim that has no device yet, on a
\* CDI directory that holds Gaudi specs only
GaudiNewBlankDevice(c, fail) ==
    /\ Named(gaudi.spec, c) = {}
    /\ GaudiDone(NewBlankDevice(gaudi.spec, c, fail))

GaudiDeleteBlankDevices(c, fail) ==
    GaudiDone(DeleteBlankDevices(gaudi.spec, c, fail))

InitSync ==
    /\ up = TRUE
    /\ Services = [aa |-> None, bb |-> Dc]
    /\ AllowReconfiguration = [aa |-> FALSE, bb |-> FALSE]
    /\ AvailableDevices = DiscoveredAvailable
    /\ AllocatedDevices = DiscoveredAllocated
    /\ requested = NothingRequested
    /\ Prepared = EmptyLedger
    /\ disk = EmptyLedger
    /\ claimResults = [c \in Claims |-> <<[Device |-> Missing, Mine |-> FALSE]>>]
    /\ registry \in [SpecFiles -> DiskSpecs]
    /\ Allocatable = {}
    /\ last = SyncOutcome("init", "ok", {}, {}, FALSE)
    /\ conc = Idle /\ hm = Idle
    /\ gaudi = [spec |-> NoSpec, status |-> "ok"]
    /\ taints = Idle /\ scan = Idle

NextSync ==
    \/ \E detected \in SUBSET SyncVFs, order \in SyncOrders, fail \in SyncFailures :
          NewNodeState(detected, order, fail)
    \/ \E detected \in SUBSET GaudiDevices, fail \in GaudiFailures :
          GaudiNewNodeState(detected, fail)
    \/ \E c \in Claims, fail \in GaudiFailures : GaudiNewBlankDevice(c, fail)
    \/ \E c \in Claims, fail \in GaudiFailures : GaudiDeleteBlankDevices(c, fail)

SpecSync == InitSync /\ [][NextSync]_vars

\* ------------------------------------------------------------------------
\* The Gaudi helpers on a CDI directory shared with other drivers of the
\* vendor (pkg/gaudi/cdihelpers)
\* ------------------------------------------------------------------------
\* the specs of vendor intel.com in the CDI directory: the Gaudi spec, and
\* a spec of another kind (getGaudiSpecs filters by Kind) that GetVendorSpecs
\* lists before it, if there is one
VendorSpecs(g) == [spec |-> g.spec, foreign |-> g.foreign]
ForeignSpecs ==
    {NoSpec, SpecOf({DeviceEntry("dsa0")}), SpecOf({DeviceEntry("dsa0"), DeviceEntry("dsa1")})}

\* op, claim, before: the call just made, its claim and the vendor specs
\* before it
CdiDone(op, c, spec, foreign, err) ==
    /\ gaudi' = [spec |-> spec, foreign |-> foreign,
                 status |-> IF err THEN "err" ELSE "ok",
                 op |-> op, claim |-> c, before |-> VendorSpecs(gaudi)]
    /\ UNCHANGED <<up, allocVars, last, Allocatable, registry, conc, hm, taints, scan>>

\* Gaudi newNodeState: only the specs of the Gaudi kind are replaced
CdiNewNodeState(detected, fail) ==
    LET r == AddDetectedDevicesToCDIRegistry(gaudi.spec, detected, fail)
    IN  CdiDone("start", NoClaim, r.spec, gaudi.foreign, r.err)

\* Gaudi nodeState.cdiHabanaEnvVar for a claim that has no device yet:
\* NewBlankDevice works on vendorSpecs[0], whatever its kind
CdiNewBlankDevice(c, fail) ==
    /\ Named(gaudi.spec, c) = {} /\ Named(gaudi.foreign, c) = {}
    /\ IF gaudi.foreign.present
       THEN LET r == NewBlankDevice(gaudi.foreign, c, fail)
            IN  CdiDone("new", c, gaudi.spec, r.spec, r.err)
       ELSE LET r == NewBlankDevice(gaudi.spec, c, fail)
            IN  CdiDone("new", c, r.spec, gaudi.foreign, r.err)

\* DeleteBlankDevices: GetDevice is given the name qualified with the Gaudi
\* kind, which only a device of a Gaudi spec carries
CdiDeleteBlankDevices(c, fail) ==
    LET r == DeleteBlankDevices(gaudi.spec, c, fail)
    IN  CdiDone("delete", c, r.spec, gaudi.foreign, r.err)

InitCdi ==
    /\ up = TRUE
    /\ QatFresh
    /\ \E foreign \in ForeignSpecs :
          gaudi = [spec |-> NoSpec, foreign |-> foreign, status |-> "ok",
                   op |-> "init", claim |-> NoClaim,
                   before |-> [spec |-> NoSpec, foreign |-> foreign]]
    /\ conc = Idle /\ hm = Idle /\ taints = Idle /\ scan = Idle

NextCdi ==
    \/ \E detected \in SUBSET GaudiDevices, fail \in GaudiFailures :
          CdiNewNodeState(detected, fail)
    \/ \E c \in Claims, fail \in GaudiFailures : CdiNewBlankDevice(c, fail)
    \/ \E c \in Claims, fail \in GaudiFailures : CdiDeleteBlankDevices(c, fail)

SpecCdi == InitCdi /\ [][NextCdi]_vars

\* ------------------------------------------------------------------------
\* Gaudi kubelet plugin: nodeState.Prepare (cmd/kubelet-gaudi-plugin), with the
\* Ledger file and the claim's device in the CDI registry
\* ------------------------------------------------------------------------
GaudiKind == "intel.com/gaudi"
\* DeviceInfo.CDIName and cdiparser.QualifiedName(vendor, class, name)
QualifiedName(n) == <<GaudiKind, n>>
\* a name handed to the registry as it is, without vendor and class
Unqualified(n) == <<"", n>>
GaudiMissing == "accel9"
\* which call of the outside world fails during one Prepare
PrepareFailures == {"none", "registry", "ledger"}

\* a claim as the handler receives it: Status.Allocation may be nil
NoAllocation == [Allocated |-> FALSE, Results |-> <<>>]
AllocationOf(results) == [Allocated |-> TRUE, Results |-> results]
GaudiResultEntries ==
    [Device : GaudiDevices \cup {GaudiMissing}, Mine : {TRUE}] \cup
    [Device : {GaudiMissing}, Mine : {FALSE}]

\* cdiCache.GetDevice: lookup by qualified name
GetDevice(spec, key) ==
    IF spec.present THEN {d \in spec.Devices : QualifiedName(d.Name) = key} ELSE {}

\* mutant of cdiHabanaEnvVar: the claim gets no device of its own in the spec
cdiHabanaEnvVarNoEntry(spec, c, fail) ==
    [err |-> fail = "registry", spec |-> spec]

\* nodeState.cdiHabanaEnvVar: GetDevice is given the bare claim UID; a device
\* that is found is overwritten in place, otherwise NewBlankDevice adds one
cdiHabanaEnvVar(spec, c, fail) ==
    IF GetDevice(spec, Unqualified(c)) # {}
    THEN IF fail = "registry" THEN [err |-> TRUE, spec |-> spec]
         ELSE [err |-> FALSE,
               spec |-> SpecOf((spec.Devices \ Named(spec, c)) \cup
                               {[d EXCEPT !.Env = TRUE] : d \in Named(spec, c)})]
    ELSE NewBlankDevice(spec, c, IF fail = "registry" THEN {"write"} ELSE {})

GaudiPreparedDevice(n) == [DeviceName |-> n, CDIDeviceIDs |-> <<QualifiedName(n)>>]

\* the loop of prepareAllocatedDevices
RECURSIVE GaudiPrepareLoop(_, _, _, _)
GaudiPrepareLoop(G, results, i, acc) ==
    IF i > Len(results) THEN [err |-> FALSE, Devices |-> acc]
    ELSE LET r == results[i]
         IN  IF ~r.Mine THEN GaudiPrepareLoop(G, results, i + 1, acc)
             ELSE IF r.Device \notin G.Allocatable
             THEN [err |-> TRUE, Devices |-> acc]
             ELSE GaudiPrepareLoop(G, results, i + 1,
                                   Append(acc, GaudiPreparedDevice(r.Device)))

\* nodeState.prepareAllocatedDevices
prepareAllocatedDevices(G, c, results, fail) ==
    LET l == GaudiPrepareLoop(G, results, 1, <<>>)
    IN  IF l.err \/ Len(l.Devices) = 0
        THEN [err |-> l.err, Devices |-> l.Devices, spec |-> G.spec]
        ELSE LET e == cdiHabanaEnvVar(G.spec, c, fail)
             IN  IF e.err
                 THEN [err |-> TRUE, Devices |-> l.Devices, spec |-> e.spec]
                 ELSE [err |-> FALSE, spec |-> e.spec,
                       Devices |-> [l.Devices EXCEPT ![1].CDIDeviceIDs =
                                       Append(@, QualifiedName(c))]]

\* mutant of GaudiPrepare: the claim's entry is taken back when the Ledger file
\* cannot be written
GaudiPrepareUndo(G, c, claim, fail) ==
    IF ~claim.Allocated THEN [err |-> TRUE, G |-> G]
    ELSE LET pa == prepareAllocatedDevices(G, c, claim.Results, fail)
             G1 == [G EXCEPT !.spec = pa.spec]
         IN  IF pa.err THEN [err |-> TRUE, G |-> G1]
             ELSE IF fail = "ledger" THEN [err |-> TRUE, G |-> G1]
             ELSE LET G2 == [G1 EXCEPT !.Prepared[c] = Entry(pa.Devices)]
                  IN  [err |-> FALSE, G |-> [G2 EXCEPT !.disk = G2.Prepared]]

\* nodeState.Prepare of the Gaudi plugin
GaudiPrepare(G, c, claim, fail) ==
    IF ~claim.Allocated THEN [err |-> TRUE, G |-> G]
    ELSE LET pa == prepareAllocatedDevices(G, c, claim.Results, fail)
             G1 == [G EXCEPT !.spec = pa.spec]
         IN  IF pa.err THEN [err |-> TRUE, G |-> G1]
             ELSE LET G2 == [G1 EXCEPT !.Prepared[c] = Entry(pa.Devices)]
                  IN  IF fail = "ledger" THEN [err |-> TRUE, G |-> G2]
                      ELSE [err |-> FALSE, G |-> [G2 EXCEPT !.disk = G2.Prepared]]

\* driver.prepareResourceClaim: a claim found in Prepared is answered from it
GaudiPrepareResourceClaim(c, fail) ==
    /\ up
    /\ IF gaudi.Prepared[c].found
       THEN gaudi' = [gaudi EXCEPT !.last = [op |-> "prepare", claim |-> c, status |-> "ok",
                                             known |-> TRUE, fail |-> "none"]]
       ELSE LET r == GaudiPrepare(gaudi, c, claimResults[c], fail)
            IN  gaudi' = [r.G EXCEPT !.last = [op |-> "prepare", claim |-> c,
                                               status |-> IF r.err THEN "err" ELSE "ok",
                                               known |-> FALSE, fail |-> fail]]
    /\ UNCHANGED <<up, qatVars, conc, hm, taints, scan>>

\* process start: newNodeState writes the detected devices into a new spec and
\* reads the Ledger file
GaudiRestart ==
    /\ LET r == AddDetectedDevicesToCDIRegistry(gaudi.spec, gaudi.Allocatable, {})
       IN  gaudi' = [gaudi EXCEPT !.spec = r.spec, !.Prepared = gaudi.disk,
                                  !.last = [op |-> "restart", claim |-> NoClaim,
                                            status |-> "ok", known |-> FALSE,
                                            fail |-> "none"]]
    /\ up' = TRUE
    /\ UNCHANGED <<qatVars, conc, hm, taints, scan>>

GaudiClaimSets ==
    [A : {AllocationOf(<<[Device |-> "accel0", Mine |-> TRUE]>>)},
     B : {NoAllocation} \cup {AllocationOf(r) : r \in SeqsUpTo(GaudiResultEntries, MaxResults)}]

InitGaudi ==
    /\ up = TRUE
    /\ Services = [aa |-> None, bb |-> Dc]
    /\ AllowReconfiguration = [aa |-> FALSE, bb |-> FALSE]
    /\ AvailableDevices = DiscoveredAvailable
    /\ AllocatedDevices = DiscoveredAllocated
    /\ requested = NothingRequested
    /\ Prepared = EmptyLedger
    /\ disk = EmptyLedger
    /\ claimResults \in GaudiClaimSets
    /\ last = Outcome("init", NoClaim, "ok", <<>>, FALSE, FALSE)
    /\ Allocatable = FirstStart.inv
    /\ registry = FirstStart.reg
    /\ conc = Idle /\ hm = Idle /\ taints = Idle /\ scan = Idle
    /\ gaudi = [Allocatable |-> GaudiDevices,
                Prepared |-> EmptyLedger, disk |-> EmptyLedger,
                spec |-> AddDetectedDevicesToCDIRegistry(NoSpec, GaudiDevices, {}).spec,
                last |-> [op |-> "init", claim |-> NoClaim, status |-> "ok",
                          known |-> FALSE, fail |-> "none"]]

NextGaudi ==
    \/ \E c \in Claims, fail \in PrepareFailures : GaudiPrepareResourceClaim(c, fail)
    \/ GaudiRestart

SpecGaudi == InitGaudi /\ [][NextGaudi]_vars

\* ------------------------------------------------------------------------
\* GPU health: DeviceTaintRules (driver.updateTaintRule, deleteTaintRule,
\* doesTaintRuleExist, createTaintRuleMaybe)
\* ------------------------------------------------------------------------
\* the device of the node, and a device the node no longer has
TaintDevices == {"gpu0"}
\* the health types whose rules are followed
TaintHealthTypes == {"CoreThermal", "MemoryThermal"}
GoneGpu == "gpu1"
\* the rule of createTaintRuleMaybe carries no health type in its name
NoHealthType == "unhealthy"
\* buildTaintRuleName: driver and node are fixed, uid and health type vary
buildTaintRuleName(uid, healthType) == <<uid, healthType>>
TaintRuleNames == (TaintDevices \cup {GoneGpu}) \X (TaintHealthTypes \cup {NoHealthType})
\* rules on the server when the plugin starts: any rules of the node's device
\* and possibly one of the device that is gone
LeftoverRules ==
    {R \cup L : R \in SUBSET (TaintDevices \X (TaintHealthTypes \cup {NoHealthType})),
                L \in {{}, {buildTaintRuleName(GoneGpu, NoHealthType)}}}
\* the statuses statusNameTaintHealthEffect accepts
TaintStatuses == {"Critical", "Warning", "OK", "Unknown"}
\* a delta of HealthCheck for one device: the changed health types
TaintDeltas == UNION {[T -> TaintStatuses] : T \in SUBSET TaintHealthTypes}
\* which request to the API server fails during one call of updateHealth
ApiFailures == {"none", "get", "write"}

\* statusNameTaintHealthEffect, second result: taint
statusTaint(status) == status \in {"Critical", "Warning"}

\* doesTaintRuleExist: a Get that fails counts as "does not exist"
doesTaintRuleExist(rules, name, api) == api # "get" /\ name \in rules

\* DeviceTaintRules().Create on the API server: a name conflict is an error
ApiCreate(rules, name, api) ==
    IF api = "write" \/ name \in rules THEN rules ELSE rules \cup {name}

\* DeviceTaintRules().Delete on the API server
ApiDelete(rules, name, api) ==
    IF api = "write" THEN rules ELSE rules \ {name}

\* statusNameTaintHealthEffect: the Taint.Value and Taint.Effect of a rule
TaintOf(status) ==
    [Value |-> status,
     Effect |-> IF status = "Critical" THEN "NoExecute" ELSE "NoSchedule"]
\* the taint createTaintRuleMaybe gives its rule
UnhealthyTaint == [Value |-> "CriticalError", Effect |-> "NoExecute"]
NoTaint == [Value |-> "", Effect |-> ""]

\* the DeviceTaint of every rule after a request: a rule that the request
\* created carries tv, a rule that is gone carries nothing
StoredTaints(T, rules, tv) ==
    [n \in TaintRuleNames |->
        IF n \in rules \ T.rules THEN tv
        ELSE IF n \notin rules THEN NoTaint ELSE T.taint[n]]

\* deleteTaintRule; T is the rules on the server and the requests issued
deleteTaintRule(T, uid, healthType, api) ==
    LET name == buildTaintRuleName(uid, healthType)
    IN  IF ~doesTaintRuleExist(T.rules, name, api) THEN T
        ELSE [rules |-> ApiDelete(T.rules, name, api),
              taint |-> StoredTaints(T, ApiDelete(T.rules, name, api), NoTaint),
              issued |-> T.issued \cup {<<"delete", name>>}]

\* mutant of updateTaintRule: no look at the server before Create and Delete
updateTaintRuleUnchecked(T, uid, healthType, status, api) ==
    LET name == buildTaintRuleName(uid, healthType)
    IN  IF ~statusTaint(status)
        THEN [rules |-> ApiDelete(T.rules, name, api),
              taint |-> StoredTaints(T, ApiDelete(T.rules, name, api), NoTaint),
              issued |-> T.issued \cup {<<"delete", name>>}]
        ELSE [rules |-> ApiCreate(T.rules, name, api),
              taint |-> StoredTaints(T, ApiCreate(T.rules, name, api), TaintOf(status)),
              issued |-> T.issued \cup {<<"create", name>>}]

\* updateTaintRule
updateTaintRule(T, uid, healthType, status, api) ==
    LET name == buildTaintRuleName(uid, healthType)
    IN  IF ~statusTaint(status) THEN deleteTaintRule(T, uid, healthType, api)
        ELSE IF doesTaintRuleExist(T.rules, name, api) THEN T
        ELSE [rules |-> ApiCreate(T.rules, name, api),
              taint |-> StoredTaints(T, ApiCreate(T.rules, name, api), TaintOf(status)),
              issued |-> T.issued \cup {<<"create", name>>}]

\* createTaintRuleMaybe (the monitor that only reports unhealthy devices)
createTaintRuleMaybe(T, uid, api) ==
    LET name == buildTaintRuleName(uid, NoHealthType)
    IN  IF doesTaintRuleExist(T.rules, name, api) THEN T
        ELSE [rules |-> ApiCreate(T.rules, name, api),
              taint |-> StoredTaints(T, ApiCreate(T.rules, name, api), UnhealthyTaint),
              issued |-> T.issued \cup {<<"create", name>>}]

\* updateHealth: the loop over the changed health types of the device
RECURSIVE updateTaintRules(_, _, _, _, _)
updateTaintRules(T, uid, statuses, todo, api) ==
    IF todo = {} THEN T
    ELSE LET ty == CHOOSE t \in todo : TRUE
         IN  updateTaintRules(updateTaintRule(T, uid, ty, statuses[ty], api),
                              uid, statuses, todo \ {ty}, api)

TaintOutcome(op, uid, statuses, api, known, issued) ==
    [op |-> op, uid |-> uid, statuses |-> statuses, api |-> api, known |-> known,
     issued |-> issued]

\* driver.updateHealth(ctx, updatedDevice) of the monitor that reports status
\* changes per health type
UpdateHealthTaints(uid, statuses, api) ==
    /\ up
    /\ IF uid \notin taints.allocatable
       THEN taints' = [taints EXCEPT !.last = TaintOutcome("updateHealth", uid, statuses,
                                                           api, FALSE, {})]
       ELSE LET r == updateTaintRules([rules |-> taints.rules, taint |-> taints.taint, issued |-> {}],
                                      uid, statuses, DOMAIN statuses, api)
            IN  taints' = [taints EXCEPT
                    !.rules = r.rules, !.taint = r.taint,
                    !.Healthy[uid] = \A ty \in DOMAIN statuses : statuses[ty] # "Critical",
                    !.last = TaintOutcome("updateHealth", uid, statuses, api, TRUE, r.issued)]
    /\ UNCHANGED <<up, qatVars, conc, hm, gaudi, scan>>

\* driver.updateHealth(ctx, false, uid) of the monitor that reports unhealthy
\* devices
UpdateHealthUnhealthy(uid, api) ==
    /\ up
    /\ IF uid \notin taints.allocatable
       THEN taints' = [taints EXCEPT !.last = TaintOutcome("unhealthy", uid, NoDelta,
                                                           api, FALSE, {})]
       ELSE LET r == createTaintRuleMaybe([rules |-> taints.rules, taint |-> taints.taint, issued |-> {}], uid, api)
            IN  taints' = [taints EXCEPT
                    !.rules = r.rules, !.taint = r.taint,
                    !.Healthy[uid] = FALSE,
                    !.last = TaintOutcome("unhealthy", uid, NoDelta, api, TRUE, r.issued)]
    /\ UNCHANGED <<up, qatVars, conc, hm, gaudi, scan>>

\* GPU plugin after newDriver; rules of an earlier run may be on the server
InitTaint ==
    /\ up = TRUE
    /\ QatFresh
    /\ conc = Idle /\ hm = Idle /\ gaudi = Idle /\ scan = Idle
    /\ \E rules \in LeftoverRules, status \in {"Critical", "Warning"} :
          taints = [rules |-> rules,
                    taint |-> [n \in TaintRuleNames |->
                                  IF n \notin rules THEN NoTaint
                                  ELSE IF n[2] = NoHealthType THEN UnhealthyTaint
                                  ELSE TaintOf(status)],
                    allocatable |-> TaintDevices,
                    Healthy |-> [d \in TaintDevices |-> TRUE],
                    last |-> TaintOutcome("init", "", NoDelta, "none", FALSE, {})]

NextTaint ==
    \/ \E uid \in TaintDevices \cup {GoneGpu}, statuses \in TaintDeltas, api \in ApiFailures :
          UpdateHealthTaints(uid, statuses, api)
    \/ \E uid \in TaintDevices \cup {GoneGpu}, api \in ApiFailures :
          UpdateHealthUnhealthy(uid, api)

SpecTaint == InitTaint /\ [][NextTaint]_vars

\* ------------------------------------------------------------------------
\* Device discovery from sysfs: scanDevicesFromDriverDirFiles (Gaudi) and
\* processSysfsDriverDir (GPU)
\* ------------------------------------------------------------------------
\* names in the driver directory, in the order os.ReadDir returns them
PciAddresses == <<"0000:0f:00.0", "0000:1f:00.0", "0000:2f:00.0">>
NamingStyles == {"classic", "machine"}
\* the device ID file: readable or not
DeviceFileStates == {"ok", "missing"}
\* the accel directory: one accelN entry, none, several, or one whose index
\* ParseUint rejects
AccelStates == {"ok", "missing", "many", "unparsable"}
\* the module_id file
ModuleStates == {"ok", "missing", "unparsable"}
\* the drm directory: cardN and renderDN, no directory, a directory without a
\* cardN entry, a cardN or a renderDN whose index ParseUint rejects
DrmStates == {"ok", "nodir", "nocard", "badcard", "badrenderd"}
DeviceIndexes == 0..1

\* one entry of the driver directory; pci = FALSE is a name that PciRegexp
\* does not match (bind, unbind, module, ...)
GaudiEntries ==
    [pci : {TRUE}, device : DeviceFileStates, accel : AccelStates,
     module : ModuleStates, idx : DeviceIndexes] \cup
    [pci : {FALSE}, device : {"missing"}, accel : {"missing"},
     module : {"missing"}, idx : {0}]
GpuEntries ==
    [pci : {TRUE}, device : DeviceFileStates, drm : DrmStates, idx : DeviceIndexes] \cup
    [pci : {FALSE}, device : {"missing"}, drm : {"nodir"}, idx : {0}]

\* every attribute the scan reads is present and parsable
GaudiWellFormed(e) == e.pci /\ e.device = "ok" /\ e.accel = "ok" /\ e.module = "ok"
GpuWellFormed(e) == e.pci /\ e.device = "ok" /\ e.drm = "ok"

\* the kernel gives every device its own accel / card index
DistinctIndexes(entries, WellFormed(_)) ==
    \A i, j \in 1..Len(entries) :
        (i # j /\ WellFormed(entries[i]) /\ WellFormed(entries[j]))
        => entries[i].idx # entries[j].idx

\* helpers.DeviceUIDFromPCIinfo
DeviceUIDFromPCIinfo(address, deviceId) == <<address, deviceId>>
DeviceId == "0x1020"

\* determineDeviceName
determineDeviceName(info, namingStyle) ==
    IF namingStyle = "classic" THEN <<"idx", info.Idx>> ELSE info.UID

\* getAccelIndex
getAccelIndex(e) ==
    IF e.accel \in {"missing", "many"} THEN [err |-> TRUE, idx |-> 0]
    ELSE IF e.accel = "unparsable" THEN [err |-> TRUE, idx |-> 0]
    ELSE [err |-> FALSE, idx |-> e.idx]

\* getModuleId
getModuleId(e) ==
    IF e.module = "ok" THEN [err |-> FALSE, idx |-> e.idx] ELSE [err |-> TRUE, idx |-> 0]

\* drm.DeduceCardAndRenderdIndexes: a directory without a cardN entry and a
\* renderDN that does not parse are no errors, the index stays 0
DeduceCardAndRenderdIndexes(e) ==
    CASE e.drm = "nodir" -> [err |-> TRUE, cardIdx |-> 0, renderdIdx |-> 0]
      [] e.drm = "badcard" -> [err |-> TRUE, cardIdx |-> 0, renderdIdx |-> 0]
      [] e.drm = "nocard" -> [err |-> FALSE, cardIdx |-> 0, renderdIdx |-> 128 + e.idx]
      [] e.drm = "badrenderd" -> [err |-> FALSE, cardIdx |-> e.idx, renderdIdx |-> 0]
      [] OTHER -> [err |-> FALSE, cardIdx |-> e.idx, renderdIdx |-> 128 + e.idx]

\* devices[name] = info
MapSet(devices, name, info) ==
    [n \in DOMAIN devices \cup {name} |-> IF n = name THEN info ELSE devices[n]]
NoDevices == [n \in {} |-> 0]

\* scanDevicesFromDriverDirFiles
RECURSIVE scanDevicesFromDriverDirFiles(_, _, _, _)
scanDevicesFromDriverDirFiles(files, namingStyle, i, devices) ==
    IF i > Len(files) THEN devices
    ELSE LET e == files[i]
             ai == getAccelIndex(e)
             mi == getModuleId(e)
             info == [UID |-> DeviceUIDFromPCIinfo(PciAddresses[i], DeviceId),
                      PCIAddress |-> PciAddresses[i], Model |-> DeviceId,
                      Idx |-> ai.idx, ModuleIdx |-> mi.idx]
         IN  IF ~e.pci \/ e.device = "missing" \/ ai.err \/ mi.err
             THEN scanDevicesFromDriverDirFiles(files, namingStyle, i + 1, devices)
             ELSE scanDevicesFromDriverDirFiles(files, namingStyle, i + 1,
                      MapSet(devices, determineDeviceName(info, namingStyle), info))

\* processSysfsDriverDir
RECURSIVE processSysfsDriverDir(_, _, _, _)
processSysfsDriverDir(files, namingStyle, i, devices) ==
    IF i > Len(files) THEN devices
    ELSE LET e == files[i]
             di == DeduceCardAndRenderdIndexes(e)
             info == [UID |-> DeviceUIDFromPCIinfo(PciAddresses[i], DeviceId),
                      PCIAddress |-> PciAddresses[i], Model |-> DeviceId,
                      Idx |-> di.cardIdx, RenderdIdx |-> di.renderdIdx]
         IN  IF ~e.pci \/ e.device = "missing" \/ di.err
             THEN processSysfsDriverDir(files, namingStyle, i + 1, devices)
             ELSE processSysfsDriverDir(files, namingStyle, i + 1,
                      MapSet(devices, determineDeviceName(info, namingStyle), info))

\* discovery.DiscoverDevices of the Gaudi plugin
DiscoverGaudiDevices ==
    /\ scan.family = "gaudi" /\ ~scan.done
    /\ scan' = [scan EXCEPT !.done = TRUE,
                            !.devices = scanDevicesFromDriverDirFiles(scan.files,
                                            scan.namingStyle, 1, NoDevices)]
    /\ UNCHANGED <<up, qatVars, conc, hm, gaudi, taints>>

\* discovery.DiscoverDevices of the GPU plugin, one driver directory
DiscoverGpuDevices ==
    /\ scan.family = "gpu" /\ ~scan.done
    /\ scan' = [scan EXCEPT !.done = TRUE,
                            !.devices = processSysfsDriverDir(scan.files,
                                            scan.namingStyle, 1, NoDevices)]
    /\ UNCHANGED <<up, qatVars, conc, hm, gaudi, taints>>

InitScan ==
    /\ up = TRUE
    /\ QatFresh
    /\ conc = Idle /\ hm = Idle /\ gaudi = Idle /\ taints = Idle
    /\ scan \in
          {[family |-> "gaudi", namingStyle |-> ns, files |-> f, done |-> FALSE,
            devices |-> NoDevices] :
              ns \in NamingStyles,
              f \in {g \in SeqsUpTo(GaudiEntries, MaxEntries) :
                        DistinctIndexes(g, GaudiWellFormed)}} \cup
          {[family |-> "gpu", namingStyle |-> ns, files |-> f, done |-> FALSE,
            devices |-> NoDevices] :
              ns \in NamingStyles,
              f \in {g \in SeqsUpTo(GpuEntries, MaxEntries) :
                        DistinctIndexes(g, GpuWellFormed)}}

NextScan == DiscoverGaudiDevices \/ DiscoverGpuDevices

SpecScan == InitScan /\ [][NextScan]_vars

\* the entry at position i of the scan is described by a returned device
Returned(i) ==
    \E n \in DOMAIN scan.devices :
        /\ scan.devices[n].PCIAddress = PciAddresses[i]
        /\ scan.devices[n].Idx = scan.files[i].idx

\* a returned device carries the PCI address of position i
Listed(i) ==
    \E n \in DOMAIN scan.devices : scan.devices[n].PCIAddress = PciAddresses[i]

WellFormedEntry(i) ==
    IF scan.family = "gaudi" THEN GaudiWellFormed(scan.files[i])
    ELSE GpuWellFormed(scan.files[i])

\* ------------------------------------------------------------------------
\* Properties
\* ------------------------------------------------------------------------
DeviceNames(res) == {res[i].DeviceName : i \in 1..Len(res)}
MineDevices(results) == {results[i].Device : i \in {j \in 1..Len(results) : results[j].Mine}}
HoldersNow(v) == {c \in Claims : v \in AllocatedDevices[pfdevice(v)][c]}
HoldersNext(v) == {c \in Claims : v \in AllocatedDevices'[pfdevice(v)][c]}
BoundNext(c) == UNION {AllocatedDevices'[p][c] : p \in PFs}

\* C1: after any sequence of Allocate, Free and getVFs, every VF is either in
\* its PF's AvailableDevices and under no claimant, or out of AvailableDevices
\* and under exactly one claimant; the sets of a PF hold only its own VFs.
C1_ExactlyOnePlace ==
    /\ \A v \in VFs :
          \/ v \in AvailableDevices[pfdevice(v)] /\ HoldersNow(v) = {}
          \/ v \notin AvailableDevices[pfdevice(v)] /\ Cardinality(HoldersNow(v)) = 1
    /\ \A p \in PFs :
          /\ AvailableDevices[p] \subseteq VFsOf(p)
          /\ \A c \in Claims : AllocatedDevices[p][c] \subseteq VFsOf(p)

\* C1 witness: a rescan has run while one VF of a PF is allocated and another
\* VF of the same PF is available
C1_Witness ==
    /\ last.op = "rescan"
    /\ \E p \in PFs : \E v, w \in VFsOf(p) :
          /\ HoldersNow(v) # {}
          /\ w \in AvailableDevices[p]
          /\ C1_ExactlyOnePlace

\* C2: a Prepare of claim c that directly follows a successful Prepare of c
\* returns the same result, changes neither the allocation state nor the
\* Ledger, and the VFs bound to c are exactly the devices of that one result.
C2_PrepareTwice ==
    [][\A c \in Claims :
          (/\ last.op = "prepare" /\ last.claim = c /\ last.status = "ok"
           /\ PrepareResourceClaim(c))
          => /\ last'.status = "ok"
             /\ last'.res = last.res
             /\ last'.known
             /\ UNCHANGED <<Services, AllowReconfiguration, AvailableDevices,
                            AllocatedDevices, Prepared, disk>>
             /\ BoundNext(c) = DeviceNames(last'.res)
             /\ Cardinality(BoundNext(c)) = Cardinality(MineDevices(claimResults[c]))]_vars

\* C2 witness: the second Prepare of a claim that requested one VF has been
\* answered from the Ledger, with that one VF bound to the claim
C2_Witness ==
    /\ last.op = "prepare" /\ last.status = "ok" /\ last.known
    /\ Len(last.res) = 1
    /\ \E v \in VFs : /\ DeviceNames(last.res) = {v}
                      /\ HoldersNow(v) = {last.claim}
                      /\ UNION {AllocatedDevices[p][last.claim] : p \in PFs} = {v}

\* C3: when VF d is bound to claim a by a's Prepare, a Prepare of another,
\* not yet prepared claim b whose results name d fails, d stays bound to a and
\* b gets no Ledger entry.
C3_SecondClaimRejected ==
    [][\A a, b \in Claims : \A d \in VFs :
          (/\ a # b
           /\ Prepared[a].found /\ d \in DeviceNames(Prepared[a].Devices)
           /\ d \in AllocatedDevices[pfdevice(d)][a]
           /\ ~Prepared[b].found
           /\ d \in MineDevices(claimResults[b])
           /\ PrepareResourceClaim(b))
          => /\ last'.status \in {"could not allocate device",
                                  "could not find allocatable device"}
             /\ d \in AllocatedDevices'[pfdevice(d)][a]
             /\ HoldersNext(d) = {a}
             /\ Prepared'[a] = Prepared[a]
             /\ ~Prepared'[b].found]_vars

\* C3 witness: Prepare of B has just failed in Allocate on a VF that A's
\* Prepare bound and still holds
C3_Witness ==
    /\ last.op = "prepare" /\ last.claim = "B"
    /\ last.status = "could not allocate device"
    /\ Prepared["A"].found /\ ~Prepared["B"].found
    /\ \E d \in MineDevices(claimResults["B"]) \cap VFs :
          /\ d \in DeviceNames(Prepared["A"].Devices)
          /\ HoldersNow(d) = {"A"}

\* C4: whenever Prepare of a claim returns an error, no VF is bound to the
\* claim afterwards, the Ledger has no entry for it and the VFs of the other
\* claims are where they were.
C4_RollbackOnError ==
    [][\A c \in Claims :
          (PrepareResourceClaim(c) /\ last'.status # "ok")
          => /\ BoundNext(c) = {}
             /\ ~Prepared'[c].found
             /\ \A o \in Claims \ {c} : \A p \in PFs :
                   AllocatedDevices'[p][o] = AllocatedDevices[p][o]]_vars

\* C5: in every state of the running plugin, every device named by the Ledger
\* entry of a claim is allocated to that claim.
C5_LedgerMatchesAllocation ==
    up => \A c \in Claims : \A d \in DeviceNames(Prepared[c].Devices) :
             d \in AllocatedDevices[pfdevice(d)][c]

\* C6: when Prepare of a claim returns success, the Ledger file holds an entry
\* for the claim equal to the returned result.
C6_PersistedOnSuccess ==
    [][\A c \in Claims :
          (PrepareResourceClaim(c) /\ last'.status = "ok")
          => disk'[c] = Entry(last'.res)]_vars

\* C7: after a successful Unprepare of a prepared claim, every device its
\* Ledger entry named is available and under no claimant, and the claim has no
\* entry in memory or on disk.
C7_UnprepareFreesAll ==
    [][\A c \in Claims :
          (Prepared[c].found /\ UnprepareResourceClaim(c) /\ last'.status = "ok")
          => /\ \A d \in DeviceNames(Prepared[c].Devices) :
                   d \in AvailableDevices'[pfdevice(d)] /\ HoldersNext(d) = {}
             /\ ~Prepared'[c].found
             /\ ~disk'[c].found]_vars

\* C8: Unprepare of a claim that has no Ledger entry reports no error and
\* changes neither Ledger nor any VF allocation.
C8_UnprepareUnknownClaim ==
    [][\A c \in Claims :
          (~Prepared[c].found /\ UnprepareResourceClaim(c))
          => /\ last'.status = "ok"
             /\ UNCHANGED <<Prepared, disk, AvailableDevices, AllocatedDevices>>]_vars

\* C9: a request by a new claim for a service the configured PF does not
\* provide is rejected, and the profile kept, while a VF of the PF is
\* allocated; right after the last VF of a reconfigurable PF has been freed,
\* such a request succeeds and the profile becomes the requested one.
C9_ProfileFrozenWhileAllocated ==
    [][\A v \in VFs : \A svc \in RequestServices \ {Unset} : \A by \in Claims :
          LET p == pfdevice(v)
          IN  (AllocateOp(v, svc, by) /\ BoundTo(DevState, by) = {})
              => /\ (/\ Services[p] # None
                     /\ ~Supports(Services[p], svc)
                     /\ AllocatedUnder(DevState, p) # {})
                    => /\ last'.status # "ok"
                       /\ Services'[p] = Services[p]
                       /\ AllocatedDevices' = AllocatedDevices
                 /\ (/\ AllowReconfiguration[p]
                     /\ last.op = "free" /\ last.status = "ok"
                     /\ AllocatedUnder(DevState, p) = {})
                    => /\ last'.status = "ok"
                       /\ Services'[p] = svc]_vars

\* C10: in every state, the Services of each PF support the service that was
\* requested for every VF allocated under it.
C10_ServicesSupportAllocated ==
    \A v \in VFs :
        HoldersNow(v) # {} => Supports(Services[pfdevice(v)], requested[v])

\* C11: a rescan of a PF leaves every VF allocated to a claimant under that
\* claimant and out of AvailableDevices, and changes neither the size of the
\* available set nor the size of the claimant's allocated set.
C11_RescanKeepsBindings ==
    [][\A p \in PFs : \A x \in Claims : \A v \in VFsOf(p) :
          (v \in AllocatedDevices[p][x] /\ Rescan(p))
          => /\ v \in AllocatedDevices'[p][x]
             /\ v \notin AvailableDevices'[p]
             /\ Cardinality(AvailableDevices'[p]) = Cardinality(AvailableDevices[p])
             /\ Cardinality(AllocatedDevices'[p][x]) = Cardinality(AllocatedDevices[p][x])]_vars

\* C11 witness: a rescan has run on a PF of which one VF is allocated to a
\* claim and the other VFs are available
C11_Witness ==
    /\ last.op = "rescan" /\ last.claim = "aa"
    /\ \E x \in Claims : \E v \in VFsOf("aa") :
          /\ AllocatedDevices["aa"][x] = {v}
          /\ AvailableDevices["aa"] = VFsOf("aa") \ {v}

\* the handlers of SpecConc run one after the other from the state L: the
\* whole call, as driver.prepareResourceClaim / nodeState.Unprepare compute it
Sequential(call, L, results) ==
    IF call = "prepare"
    THEN LET r == prepareResourceClaim(L.D, L.Prepared, ConcClaim, results)
         IN  [resp |-> [status |-> r.status, res |-> r.res],
              L |-> [L EXCEPT !.D = r.D, !.Prepared = r.Prepared]]
    ELSE LET u == Unprepare(L, ConcClaim, results)
         IN  [resp |-> [status |-> u.status, res |-> <<>>], L |-> u.L]

SequentialOutcomes ==
    {LET first == Sequential(conc.call[t], conc.start, claimResults[ConcClaim])
         u == CHOOSE x \in Threads : x # t
         second == Sequential(conc.call[u], first.L, claimResults[ConcClaim])
     IN  [L |-> second.L, resp |-> [x \in Threads |-> IF x = t THEN first.resp
                                                               ELSE second.resp]] :
     t \in Threads}

\* C12: no goroutine reads the Prepared map or the allocation maps (the
\* already-prepared check and the final read of prepareResourceClaim,
\* GetResources) while another goroutine is inside the critical section of
\* Prepare or Unprepare.
C12_ReadsUnderLock ==
    [][\A t \in Threads :
          (CheckPrepared(t) \/ ReturnPrepared(t) \/ GetResources(t)) => ~Racing(t)]_vars

\* C13: concurrent Prepare and Unprepare calls for one claim never abort the
\* process, and when both have returned, the state and the two responses are
\* those of one of the two sequential orders of the same calls.
C13_Serializable ==
    /\ up
    /\ (\A t \in Threads : conc.pc[t] = "done")
          => [L |-> Ledgers, resp |-> conc.resp] \in SequentialOutcomes

DeltaOf(d) == IF d \in DOMAIN hm'.delta THEN hm'.delta[d] ELSE NoDelta
CachedBefore(d) == IF d \in DOMAIN hm.cache THEN hm.cache[d] ELSE Baseline("OK")
ValidStatusNames == {"Unknown", "OK", "Warning", "Critical"}

\* C18: for every device and category, a call of HealthCheck reports the
\* category in its delta exactly when the status xpumGetHealth returns for it
\* differs from the cached one (a category whose read fails has no current
\* status and is not reported), where a device seen for the first time is
\* cached as OK in every category; the reported value is the name of the new
\* status and the cache then holds the new status.
C18_DeltaIsChange ==
    [][\A d \in GpuDevices : \A ty \in HealthTypes :
          LET now == hm'.readings[d][ty]
          IN  /\ (ty \in DOMAIN DeltaOf(d))
                    <=> (now # ReadFailed /\ now # CachedBefore(d)[ty])
              /\ ty \in DOMAIN DeltaOf(d) => DeltaOf(d)[ty] = healthStatuses(now)
              /\ hm'.cache[d][ty] = IF now = ReadFailed THEN CachedBefore(d)[ty]
                                    ELSE now]_vars

\* C18 witness: after a call that found a first-seen device OK in every
\* category or left the cache all OK, a call has reported exactly one
\* category, as Critical, and the others were read as OK
C18_Witness ==
    \E d \in GpuDevices : \E ty \in HealthTypes :
       /\ d \in DOMAIN hm.delta
       /\ DOMAIN hm.delta[d] = {ty}
       /\ hm.delta[d][ty] = "Critical"
       /\ \A o \in HealthTypes \ {ty} : hm.cache[d][o] = "OK" /\ hm.readings[d][o] = "OK"

\* C19: after updateHealth has applied a delta to a known device, the device
\* is unhealthy exactly when the delta holds a Critical status, or holds a
\* Warning status while ignoreHealthWarning is false.
C19_WarningPolicy ==
    [][\A d \in hm.allocatable :
          (up' /\ hm'.published /\ d \in DOMAIN hm'.delta)
          => (hm'.Healthy[d] <=>
                ~(\/ \E ty \in DOMAIN hm'.delta[d] : hm'.delta[d][ty] = "Critical"
                  \/ /\ \E ty \in DOMAIN hm'.delta[d] : hm'.delta[d][ty] = "Warning"
                     /\ ~hm.ignoreHealthWarning))]_vars

C14_StopsAfterCancel ==
    (hm.ctx = "cancelled")
       ~> (hm.mon = "returned" /\ hm.watch = "returned" /\ hm.xpum = "shutdown")

\* C15: a handler that wants the state lock eventually gets it and completes,
\* even when a call of HealthCheck never returns.
C15_HandlerNotStalled ==
    (hm.handler = "want") ~> (hm.handler = "idle")

\* C15 witness: a handler holds the state lock while HealthCheck is running
C15_Witness ==
    hm.watch = "poll" /\ hm.handler = "in" /\ hm.lock = "handler"

\* C16: when SyncDevices returns success, the device names in the QAT specs of
\* the registry are exactly the VF UIDs of the inventory it was given: stale
\* entries are gone and every discovered VF has an entry.
C16_RegistryReflectsInventory ==
    [][(last'.op = "sync" /\ last'.status = "ok")
          => RegistryNames(registry') = last'.detected]_vars

\* C17: no spec file of the QAT or Gaudi registry is on disk without a device.
C17_NoEmptySpecFile ==
    /\ \A f \in SpecFiles : registry[f].present => registry[f].Devices # {}
    /\ gaudi.spec.present => gaudi.spec.Devices # {}

\* a synchronization has just removed a QAT spec file whose devices are all
\* gone, while keeping another
C17_Witness ==
    /\ last.op = "sync" /\ last.status = "ok"
    /\ last.removed # {}
    /\ \E f \in SpecFiles : registry[f].present

\* C28: a successful Free reports updated exactly when it frees the last
\* allocated VF of a PF that allows reconfiguration and has a profile; the
\* profile then becomes None, otherwise it is kept; the VF is available again.
C28_FreeResetsProfile ==
    [][\A v \in EngineVFs : \A by \in Claimants :
          (last'.op = "free" /\ last'.claim = by /\ last'.status = "ok" /\ FreeOp(v, by))
          => LET p == pfdevice(v)
                 resets == /\ AllocatedUnder(DevState, p) = {v}
                           /\ AllowReconfiguration[p]
                           /\ Services[p] # None
             IN  /\ last'.updated <=> resets
                 /\ Services'[p] = IF resets THEN None ELSE Services[p]
                 /\ v \in AvailableDevices'[p]
                 /\ HoldersNext(v) = {}]_vars

\* C28 witness: the last VF of the reconfigurable PF has been freed and the
\* profile is reset
C28_Witness ==
    /\ last.op = "free" /\ last.status = "ok" /\ last.updated
    /\ AllowReconfiguration["aa"] /\ Services["aa"] = None
    /\ AvailableDevices["aa"] = VFsOf("aa")

\* C29: Free by a claimant other than the one holding the VF fails and changes
\* neither the allocation sets nor the profile; Free with the empty claimant
\* frees the VF from the claimant that holds it.
C29_FreeChecksClaimant ==
    [][\A v \in EngineVFs : \A by \in Claimants :
          (last'.op = "free" /\ last'.claim = by /\ FreeOp(v, by))
          => /\ (by # NoClaim /\ HoldersNow(v) # {} /\ by \notin HoldersNow(v))
                   => /\ last'.status # "ok"
                      /\ UNCHANGED <<AvailableDevices, AllocatedDevices, Services>>
             /\ (by = NoClaim /\ HoldersNow(v) # {})
                   => /\ last'.status = "ok"
                      /\ HoldersNext(v) = {}
                      /\ v \in AvailableDevices'[pfdevice(v)]]_vars

\* C29 witness: a Free by claim B has failed while claim A holds a VF of the PF
C29_Witness ==
    /\ last.op = "free" /\ last.claim = "B" /\ last.status # "ok"
    /\ AllocatedDevices["aa"]["A"] # {}
    /\ AllocatedDevices["aa"]["B"] = {}

\* C30: Allocate answers with the first of CheckAlreadyAllocated,
\* AllocateFromConfigured, AllocateWithReconfiguration that succeeds and fails
\* when none does; for a VF already allocated to the requester with a supported
\* or unset service nothing changes; reconfigured is reported only for the
\* third step.
C30_AllocateOrder ==
    [][\A v \in EngineVFs : \A svc \in RequestServices : \A by \in Claimants :
          (last'.op = "allocate" /\ last'.claim = by /\ AllocateOp(v, svc, by))
          => LET p == pfdevice(v)
                 held == by # NoClaim /\ v \in AllocatedDevices[p][by]
                 first == CheckAlreadyAllocated(DevState, v, svc, by)
                 second == AllocateFromConfigured(DevState, v, svc, by)
                 third == AllocateWithReconfiguration(DevState, v, svc, by)
             IN  /\ (held /\ Supports(Services[p], svc))
                       => /\ last'.status = "ok" /\ ~last'.updated
                          /\ UNCHANGED <<AvailableDevices, AllocatedDevices, Services>>
                 /\ last'.known <=> first
                 /\ last'.status = "ok" <=> (first \/ second.ok \/ third.ok)
                 /\ last'.updated <=> (~first /\ ~second.ok /\ third.ok)
                 /\ (~first /\ second.ok) => Services' = Services
                 /\ last'.status # "ok"
                       => UNCHANGED <<AvailableDevices, AllocatedDevices, Services>>]_vars

\* C30 witness: an Allocate for a VF the claim already holds has succeeded
\* without reconfiguration on a PF that was reconfigured for the claim before
C30_Witness ==
    /\ last.op = "allocate" /\ last.status = "ok" /\ ~last.updated
    /\ last.claim = "A" /\ last.known
    /\ AllowReconfiguration["aa"] /\ Services["aa"] = Sym
    /\ AllocatedDevices["aa"]["A"] = VFsOf("aa")

\* C27: after a batch PrepareResourceClaims or UnprepareResourceClaims call the
\* process is running and every claim of the batch has an entry in the
\* response: a failing claim does not keep the others from being processed.
C27_BatchIsolation ==
    [][last'.op \in {"prepare", "unprepare"}
          => /\ up'
             /\ \A i \in 1..Len(last'.batch) : last'.resp[last'.batch[i]] # NoResult]_vars

\* C23: a failing write or removal of a spec file during the synchronization
\* makes SyncDevices, and with it newNodeState, return an error, and the
\* allocation state in memory is what it was before.
C23_SyncFailureSurfaced ==
    [][(last'.op = "sync" /\ last'.failed)
          => /\ last'.status = "err"
             /\ ~up'
             /\ UNCHANGED <<AvailableDevices, AllocatedDevices, Services, Prepared>>]_vars

\* C22: when the Ledger file cannot be written during Prepare, Prepare returns
\* an error and the claim's entry stays in the in-memory Ledger.
C22_LedgerWriteFailure ==
    [][\A c \in Claims :
          (/\ gaudi'.last.op = "prepare" /\ gaudi'.last.claim = c
           /\ ~gaudi'.last.known /\ gaudi'.last.fail = "ledger"
           /\ claimResults[c].Allocated
           /\ \A i \in 1..Len(claimResults[c].Results) :
                 claimResults[c].Results[i].Mine
                 => claimResults[c].Results[i].Device \in gaudi.Allocatable)
          => /\ gaudi'.last.status = "err"
             /\ gaudi'.Prepared[c].found
             /\ Len(gaudi'.Prepared[c].Devices) =
                   Cardinality({i \in 1..Len(claimResults[c].Results) :
                                   claimResults[c].Results[i].Mine})
             /\ gaudi'.disk = gaudi.disk]_vars

\* C22 witness: Prepare of claim B has failed on the Ledger file and the
\* claim is in the in-memory Ledger but not in the file
C22_Witness ==
    /\ gaudi.last.op = "prepare" /\ gaudi.last.claim = "B"
    /\ gaudi.last.status = "err" /\ gaudi.last.fail = "ledger"
    /\ gaudi.Prepared["B"].found /\ ~gaudi.disk["B"].found

\* the claims whose Ledger entry names the device
GaudiHolders(G, n) ==
    {c \in Claims : G.Prepared[c].found /\
                    \E i \in 1..Len(G.Prepared[c].Devices) :
                        G.Prepared[c].Devices[i].DeviceName = n}

\* C24: a Gaudi device is prepared for at most one claim: while a claim is
\* prepared with a device, Prepare of another claim that names the device
\* fails and the device stays with the first claim only.
C24_GaudiExclusive ==
    [][\A c \in Claims : \A n \in GaudiDevices :
          (/\ gaudi'.last.op = "prepare" /\ gaudi'.last.claim = c
           /\ GaudiHolders(gaudi, n) \ {c} # {}
           /\ claimResults[c].Allocated
           /\ \E i \in 1..Len(claimResults[c].Results) :
                 claimResults[c].Results[i] = [Device |-> n, Mine |-> TRUE])
          => /\ gaudi'.last.status = "err"
             /\ GaudiHolders(gaudi', n) = GaudiHolders(gaudi, n)
             /\ Cardinality(GaudiHolders(gaudi', n)) = 1]_vars

C25_MalformedSkipped ==
    scan.done =>
        \A i \in 1..Len(scan.files) :
            /\ WellFormedEntry(i) => Returned(i)
            /\ ~WellFormedEntry(i) => ~Listed(i)

\* C31: on a configured PF AllocateFromConfigured binds an available VF to a
\* non-empty requester whatever service is requested, also one the PF's
\* profile does not include; with an empty requester, or a VF allocated to
\* another requester, it fails and changes nothing.
C31_FromConfigured ==
    [][\A v \in EngineVFs : \A svc \in RequestServices : \A by \in Claimants :
          (/\ last'.op = "allocateFromConfigured" /\ last'.claim = by /\ last'.res = <<v>>
           /\ Services[pfdevice(v)] # None
           /\ AllocateFromConfiguredOp(v, svc, by))
          => LET p == pfdevice(v)
             IN  /\ (by # NoClaim /\ v \in AvailableDevices[p])
                    => /\ last'.status = "ok"
                       /\ AllocatedDevices'[p] =
                             [AllocatedDevices[p] EXCEPT ![by] = @ \cup {v}]
                       /\ AvailableDevices'[p] = AvailableDevices[p] \ {v}
                       /\ Services' = Services
                 /\ (by = NoClaim \/ HoldersNow(v) \ {by} # {})
                    => /\ last'.status = "false"
                       /\ UNCHANGED <<Services, AvailableDevices, AllocatedDevices>>]_vars

\* C31 witness: the PF offers sym only, and a VF has been bound to claim A by
\* AllocateFromConfigured for a request of asym
C31_Witness ==
    /\ last.op = "allocateFromConfigured" /\ last.status = "ok" /\ last.claim = "A"
    /\ Services["aa"] = Sym
    /\ requested[<<"aa", 1>>] = Asym
    /\ <<"aa", 1>> \in AllocatedDevices["aa"]["A"]

\* C32: AllocateWithReconfiguration succeeds only when reconfiguration is
\* enabled and the PF is unconfigured, and then sets the PF's services to the
\* requested service and binds the VF; when reconfiguration is disabled or
\* the PF is configured it fails and changes nothing.
C32_WithReconfiguration ==
    [][\A v \in EngineVFs : \A svc \in RequestServices : \A by \in Claimants :
          (/\ last'.op = "allocateWithReconfiguration" /\ last'.claim = by
           /\ last'.res = <<v>>
           /\ AllocateWithReconfigurationOp(v, svc, by))
          => LET p == pfdevice(v)
             IN  /\ last'.status = "ok"
                    => /\ AllowReconfiguration[p] /\ Services[p] = None
                       /\ Services'[p] = svc
                       /\ v \in AllocatedDevices'[p][by]
                       /\ v \notin AvailableDevices'[p]
                 /\ (~AllowReconfiguration[p] \/ Services[p] # None)
                    => /\ last'.status = "false"
                       /\ UNCHANGED <<Services, AvailableDevices, AllocatedDevices>>
                 /\ (/\ AllowReconfiguration[p] /\ Services[p] = None
                     /\ by # NoClaim /\ v \in AvailableDevices[p])
                    => last'.status = "ok"]_vars

\* C32 witness: an unconfigured PF with reconfiguration enabled has been
\* configured for asym by AllocateWithReconfiguration and the VF is bound
C32_Witness ==
    /\ last.op = "allocateWithReconfiguration" /\ last.status = "ok" /\ last.claim = "B"
    /\ AllowReconfiguration["aa"]
    /\ Services["aa"] = Asym
    /\ <<"aa", 2>> \in AllocatedDevices["aa"]["B"]

\* C33: updateHealth applies every entry of an update by itself: the entry of
\* a known device sets that device's HealthStatus and Healthy flag, a device
\* without an entry keeps both, an entry for an unknown UID changes nothing,
\* and the inventory is republished, whatever the order of the map.
C33_EntriesIndependent ==
    [][hm'.delta # hm.delta \/ hm'.Healthy # hm.Healthy \/ hm'.HealthStatus # hm.HealthStatus
       \/ hm'.published # hm.published
       => /\ hm'.published
          /\ \A d \in UpdateDevices :
                IF d \in DOMAIN hm'.delta
                THEN /\ \A ty \in DOMAIN hm'.delta[d] :
                           hm'.HealthStatus[d][ty] = hm'.delta[d][ty]
                     /\ hm'.Healthy[d] =
                           (\A ty \in DOMAIN hm'.delta[d] : hm'.delta[d][ty] # "Critical")
                ELSE /\ hm'.HealthStatus[d] = hm.HealthStatus[d]
                     /\ hm'.Healthy[d] = hm.Healthy[d]]_vars

\* C34: a device whose recorded HealthStatus holds Critical for some health
\* type is not marked Healthy.
C34_CriticalNotHealthy ==
    \A d \in hm.allocatable :
        (\E ty \in HealthTypes : hm.HealthStatus[d][ty] = "Critical") => ~hm.Healthy[d]

\* C35: after a delta that reports Critical for a health type of a device has
\* been processed (API requests answered), the DeviceTaintRule of that device
\* and type carries the value Critical and the effect NoExecute, also when a
\* Warning rule with the effect NoSchedule was there before.
C35_CriticalTaint ==
    [][(/\ taints'.last.op = "updateHealth" /\ taints'.last.known
        /\ taints'.last.api = "none")
       => \A ty \in DOMAIN taints'.last.statuses :
             taints'.last.statuses[ty] = "Critical"
             => LET n == buildTaintRuleName(taints'.last.uid, ty)
                IN  /\ n \in taints'.rules
                    /\ taints'.taint[n] = [Value |-> "Critical", Effect |-> "NoExecute"]]_vars

\* C36: after newNodeState has succeeded, Allocatable holds every VF that
\* discovery reported, whatever the registry held before the start: SyncDevices
\* leaves the map it was given as it was.
C36_AllocatableIsDetected ==
    [][(last'.op = "sync" /\ last'.status = "ok")
       => Allocatable' = last'.detected]_vars

\* the VFs named in the Ledger entry of a claim
LedgerVFs(c) == {Prepared[c].Devices[i].DeviceName : i \in DOMAIN Prepared[c].Devices}

\* C37: at no time do the Ledger entries of two different claims name the
\* same VF, also after a restart that reloads the Ledger from its file and a
\* new claim that asks for a VF of a reloaded entry.
C37_LedgerDisjoint ==
    \A c1 \in Claims : \A c2 \in Claims \ {c1} : LedgerVFs(c1) \cap LedgerVFs(c2) = {}

\* C38: every CDI device id of a PreparedResult returned for a Gaudi claim, a
\* result answered from the reloaded Ledger included, names a device that is
\* in the registry when the result is returned.
C38_ResultIdsInRegistry ==
    [][(gaudi'.last.op = "prepare" /\ gaudi'.last.status = "ok")
       => \A i \in DOMAIN gaudi'.Prepared[gaudi'.last.claim].Devices :
             LET ids == gaudi'.Prepared[gaudi'.last.claim].Devices[i].CDIDeviceIDs
             IN  \A j \in DOMAIN ids : GetDevice(gaudi'.spec, ids[j]) # {}]_vars

\* C39: Unprepare of a prepared claim whose allocation results hold entries of
\* another driver or pool, or devices missing from the inventory, passes over
\* those entries without a fault and frees exactly the VFs that Prepare had
\* allocated for the claim: afterwards the claim holds no VF and the VFs of
\* the other claims are as before.
C39_UnprepareSkipsForeign ==
    [][\A c \in Claims :
          (/\ last'.op = "unprepare" /\ last'.claim = c
           /\ up /\ Prepared[c].found
           /\ \E i \in DOMAIN claimResults[c] :
                 \/ ~claimResults[c][i].Mine
                 \/ claimResults[c][i].Device \notin Allocatable)
          => /\ last'.status = "ok"
             /\ \A p \in PFs :
                   /\ AllocatedDevices'[p][c] = {}
                   /\ \A o \in Claims \ {c} : AllocatedDevices'[p][o] = AllocatedDevices[p][o]]_vars

\* C40: NewBlankDevice for a claim followed by DeleteBlankDevices for the same
\* claim leaves the vendor's specs as they were before the injection, with no
\* entry of the claim left; DeleteBlankDevices for a claim without an entry
\* changes nothing.
C40_BlankRoundTrip ==
    [][\A c \in Claims :
          (gaudi'.op = "delete" /\ gaudi'.claim = c /\ gaudi'.status = "ok")
          => /\ (gaudi.op = "new" /\ gaudi.claim = c /\ gaudi.status = "ok")
                => /\ VendorSpecs(gaudi') = gaudi.before
                   /\ Named(gaudi'.spec, c) = {} /\ Named(gaudi'.foreign, c) = {}
             /\ (Named(gaudi.spec, c) = {} /\ Named(gaudi.foreign, c) = {})
                => VendorSpecs(gaudi') = VendorSpecs(gaudi)]_vars

====
